---- MODULE Spec2Model ----
(***************************************************************************)
(* State-machine model of NEXUS PRO's order execution (core/order_executor)*)
(* order-flow analysis (ai/microstructure, core/stream_manager, main) and  *)
(* position ledger (risk/risk_manager).                                    *)
(*                                                                         *)
(* Specifications:                                                         *)
(*   SpecChase  one call of OrderExecutor.place_maker_order_with_chase     *)
(*   FairChase  SpecChase with the event loop's progress stated (WF)       *)
(*   SpecFlow   one MicrostructureAnalyzer fed arbitrary books             *)
(*   SpecWarm   one MicrostructureAnalyzer fed a long, mostly quiet stream *)
(*   SpecRoll   one MicrostructureAnalyzer fed more books than it keeps    *)
(*   SpecOrch   StreamManager tasks feeding NexusPro.on_l2_update          *)
(*   SpecLedger one RiskManager's positions and statistics, over days      *)
(*   SpecStore  one RiskManager and its SQLite store, over days            *)
(*   SpecShutdown  a chase in flight while NexusPro.stop() runs            *)
(*   SpecApi    the public operations of OrderExecutor, broker failing     *)
(*   SpecRegime the HMM retrain loop and the readers of the regime         *)
(*   SpecBot    the running NexusPro: entries, exits, stop, kill+restart   *)
(*   SpecSave   save_state step by step, with opens and closes in between  *)
(*   SpecSize   calculate_position_size over a grid of inputs              *)
(*   SpecFill   the chase with the exchange filling a resting limit order  *)
(*   SpecExit   the time-exit scan one await at a time, other paths between *)
(*   FairExit   SpecExit with a fair timer and fair ticker streams          *)
(*   SpecEntry  the order-book and bar-close entry paths, await by await    *)
(***************************************************************************)
EXTENDS Integers, Sequences, FiniteSets, TLC

VARIABLES
    \* ---- OrderExecutor.place_maker_order_with_chase -------------------
    pc,               \* position of the chase coroutine
    simulation_mode,  \* OrderExecutor.simulation_mode
    client,           \* TRUE iff OrderExecutor.client is set (connected)
    max_retries,      \* argument of the call
    timeout,          \* argument of the call, in poll-sleep units of 0.5 s
    i,                \* number of for-loop iterations already consumed
    elapsed,          \* time.time() - start_time, in units of 0.5 s
    status,           \* what the latest get_order_status returned
    active_orders,    \* OrderExecutor.active_orders (set of order ids)
    result,           \* what the call returned ("pending" while it runs)
    limitCalls,       \* calls of place_limit_order made by this chase
    marketCalls,      \* calls of place_market_order made by this chase
    priceMisses,      \* iterations in which the price callback gave no price
    envClean,         \* TRUE while every price was there, every placement was
                      \* accepted and every poll said CANCELED/EXPIRED/REJECTED
    lastCancel,       \* outcome of the latest cancel_order: none / ok / failed
    \* ---- MicrostructureAnalyzer ---------------------------------------
    prev_best_bid,    \* None or a price (prices in units of 0.5)
    prev_best_ask,
    prev_bid_vol,
    prev_ask_vol,
    ofi_history,      \* sequence of raw OFI values, oldest first
    \* ---- observations of the latest analyzer call ----------------------
    lastOp,           \* "init" / "update" / "reset" / "classify"
    lastOfi,          \* value returned by the latest calculate_ofi
    lastBook,         \* book passed to the latest calculate_ofi
    before,           \* analyzer state the latest calculate_ofi started from
    sinceReset,       \* calculate_ofi calls since creation or the last reset()
    nChanges,         \* updates since then whose book differed from the one before
    nResets,          \* reset() calls so far
    sig,              \* result of the latest get_signal_strength
    sigIn,            \* its arguments
    \* ---- StreamManager / NexusPro.on_l2_update -------------------------
    orderbooks,       \* StreamManager.orderbooks: symbol -> latest book
    symPrev,          \* symbol -> the book on_l2_update last saw for it
    lastSym,          \* symbol of the latest on_l2_update
    prevSym,          \* symbol of the on_l2_update before that one
    lastSymPrev,      \* symPrev[lastSym] as it was before that update
    afterError,       \* symbol -> its stream failed since its last update
    lastAfterError,   \* the latest update was the first after a stream error
    \* ---- RiskManager ---------------------------------------------------
    open_positions,   \* symbol -> Position, NoPos where the dict has no key
    daily_stats,      \* RiskManager.daily_stats (a DailyStats)
    is_paused,        \* RiskManager.is_paused
    max_open_positions, \* RiskManager.max_open_positions
    conn,             \* TRUE iff RiskManager.conn is set
    db_stats,         \* table daily_stats of risk.db: date -> row, NoRow if absent
    db_positions,     \* table open_positions of risk.db: symbol -> row
    today,            \* what date.today() returns now (a day number)
    \* ---- observations of the latest RiskManager call -------------------
    lastLedgerOp,     \* "init" / "can_open" / "open" / "close" / "save" / "load" / "day"
    lastArg,          \* its symbol argument, "none" where it has none
    lastRet,          \* what the latest can_open_position returned (its bool)
    lastHit,          \* the symbol had an open position when the call began
    breached,         \* current_drawdown >= max_daily_drawdown held in some
                      \* state since creation or the latest load_state
    nCloses,          \* close_position calls so far that closed a position
    \* ---- NexusPro and the calls it makes -------------------------------
    running,          \* NexusPro._running
    apiOp,            \* the OrderExecutor operation called last ("none" at first)
    apiResult,        \* how it ended: "order" / "value" / "list" / a status /
                      \* "None" / "0.0" / "[]" / "UNKNOWN" / "raised"
    \* ---- the regime classification and NexusPro._hmm_lock --------------
    hmm_detector,     \* TRUE iff NexusPro.hmm_detector is set
    hmm_lock,         \* who holds _hmm_lock: "free" / "retrain" / "analyze"
    retrain_pc,       \* _hmm_retrain_loop: "sleep" / "first" / "second" / "train"
    analyze_pc,       \* analyze_symbol at its lock: "idle" / "wait"
    lastRetrain,      \* how the latest retrain block ended: "none" / "ok" / "failed"
    nRetrains,        \* retrain periods begun
    lastRead,         \* the latest reader of the regime: "none" / "l2" / "analyze"
    lockAtRead,       \* who held _hmm_lock at that read: "free" / "retrain" / "reader"
    \* ---- the running NexusPro around its RiskManager -------------------
    feed,             \* DataProvider.start's message loop: "up" / "down"
    tickers,          \* symbols with an entry in DataProvider.ticker_cache
    conn_closed,      \* TRUE iff RiskManager.conn has been closed
    exit_pc,          \* _time_based_exit_loop: "sleep" / "done"
    nStops,           \* calls of NexusPro.stop so far in this process
    \* ---- a call of RiskManager.save_state in progress ------------------
    save_pc,          \* "idle" / "stats" / "delete" / "insert"
    tx_stats,         \* the row of the daily_stats INSERT, not yet committed
    tx_positions,     \* the rows of open_positions in the transaction
    iter_size,        \* size of the dict when the loop over it began
    seen,             \* every ledger state memory has been in (history)
    \* ---- the entry paths of NexusPro -----------------------------------
    size_in,          \* the arguments of the latest calculate_position_size
    size_out,         \* what it returned: [status, n, d], the fraction n / d
    filled,           \* ids of the limit orders the exchange has filled
    watched,          \* NexusPro.symbols: the symbols whose streams are open
    overdue,          \* symbols whose position is older than the max hold time
    exit_sel,         \* positions_to_close of the scan, not yet handled
    now,              \* the clock, in seconds
    l2_pc,            \* symbol -> where its on_l2_update is
    l2_ofi,           \* ofi of the update last weighed against a position
    bar_pc,           \* where on_candle_close is
    bar_symbol,       \* the symbol of the bar being handled
    cooldowns,        \* _signal_cooldowns: symbol -> {} or {stamp}
    entry_at,         \* symbol -> entry_time of its position, in seconds
    orders,           \* symbol -> entry orders obtained since its last close
    nSignals          \* signals accepted by the two paths so far

chaseVars == <<pc, simulation_mode, client, max_retries, timeout, i, elapsed,
               status, active_orders, result, limitCalls, marketCalls,
               priceMisses, envClean, lastCancel>>
analyzerVars == <<prev_best_bid, prev_best_ask, prev_bid_vol, prev_ask_vol,
                  ofi_history>>
obsVars == <<lastOp, lastOfi, lastBook, before, sinceReset, nChanges, nResets,
             sig, sigIn>>
orchVars == <<orderbooks, symPrev, lastSym, prevSym, lastSymPrev, afterError,
              lastAfterError>>
ledgerVars == <<open_positions, daily_stats, is_paused, max_open_positions,
                conn, db_stats, db_positions, today>>
ledgerObs == <<lastLedgerOp, lastArg, lastRet, lastHit, breached, nCloses>>
runVars == <<running, apiOp, apiResult>>
regimeVars == <<hmm_detector, hmm_lock, retrain_pc, analyze_pc, lastRetrain,
                nRetrains, lastRead, lockAtRead>>
botVars == <<feed, tickers, conn_closed, exit_pc, nStops>>
saveVars == <<save_pc, tx_stats, tx_positions, iter_size, seen>>
exitVars == <<watched, overdue, exit_sel>>
handlerVars == <<now, l2_pc, l2_ofi, bar_pc, bar_symbol, cooldowns, entry_at,
                 orders, nSignals>>
entryVars == <<size_in, size_out, filled, exitVars, handlerVars>>
vars == <<chaseVars, analyzerVars, obsVars, orchVars, ledgerVars, ledgerObs,
          runVars, regimeVars, botVars, saveVars, entryVars>>

\* What each subsystem's steps leave alone.
outsideChase == <<analyzerVars, obsVars, orchVars, ledgerVars, ledgerObs,
                  runVars, regimeVars, botVars, saveVars, entryVars>>
outsideFlow == <<chaseVars, ledgerVars, ledgerObs, runVars, regimeVars,
                 botVars, saveVars, entryVars>>
outsideLedger == <<chaseVars, analyzerVars, obsVars, orchVars, runVars,
                   regimeVars, botVars, saveVars, entryVars>>
outsideExecutor == <<analyzerVars, obsVars, orchVars, ledgerVars, ledgerObs,
                     regimeVars, botVars, saveVars, entryVars>>
outsideRegime == <<chaseVars, analyzerVars, obsVars, orchVars, ledgerVars,
                   ledgerObs, runVars, botVars, saveVars, entryVars>>
outsideBot == <<chaseVars, analyzerVars, obsVars, orchVars, regimeVars, apiOp,
                apiResult, max_open_positions, conn, today, lastHit, saveVars, entryVars>>
outsideSave == <<chaseVars, analyzerVars, obsVars, orchVars, regimeVars,
                 runVars, botVars, max_open_positions, conn, today, lastHit,
                 lastRet, breached, is_paused, entryVars>>

-----------------------------------------------------------------------------
(* Bounds of the model *)

MaxRetries == 3        \* max_retries is drawn from 0..MaxRetries
MaxTimeout == 2        \* timeout is drawn from 0..MaxTimeout (x 0.5 s)
MaxFlowUpdates == 3    \* SpecFlow: calculate_ofi calls per reset() epoch
MaxWarmUpdates == 22   \* SpecWarm: calculate_ofi calls per reset() epoch
MaxChanges == 2        \* SpecWarm: books per epoch that differ from the last
MaxResets == 1         \* reset() calls
MaxOrchUpdates == 3    \* SpecOrch: order-book events delivered
MaxRollUpdates == 103  \* SpecRoll: calculate_ofi calls per reset() epoch
MaxCloses == 2         \* SpecLedger: positions closed in a run
MaxStoreCloses == 1    \* SpecStore: positions closed in a run
MaxRetrains == 3       \* SpecRegime: retrain periods begun
MaxStops == 2          \* SpecBot: calls of stop() in one process
MaxBotCloses == 2      \* SpecBot: positions closed in a run
MaxSaveCloses == 1     \* SpecSave: positions closed in a run
MaxExitTrades == 3     \* SpecExit: positions opened or loaded in a run
TickSeconds == 10      \* SpecEntry: seconds the clock advances in a step
MaxClock == 30         \* SpecEntry: the clock stops here
MaxEntryCloses == 1    \* SpecEntry: positions closed in a run
MaxSignals == 2        \* SpecEntry: signals accepted in a run

-----------------------------------------------------------------------------
(* OrderExecutor.place_maker_order_with_chase *)

NonFillTerminal == {"CANCELED", "EXPIRED", "REJECTED"}
\* What get_order_status can return: the broker's statuses, or UNKNOWN when
\* the request raised.
Statuses == {"NEW", "PARTIALLY_FILLED", "FILLED", "UNKNOWN"} \cup NonFillTerminal

\* The order id of the limit order placed in iteration k.
OrderId(k) == k + 1

InitChaseVars ==
    /\ pc = "for"
    /\ simulation_mode \in BOOLEAN
    /\ client \in BOOLEAN
    /\ (simulation_mode => ~client)      \* connect() skips the exchange
    /\ max_retries \in 0..MaxRetries
    /\ timeout \in 0..MaxTimeout
    /\ i = 0
    /\ elapsed = 0
    /\ status = "none"
    /\ active_orders = {}
    /\ result = "pending"
    /\ limitCalls = 0
    /\ marketCalls = 0
    /\ priceMisses = 0
    /\ envClean = TRUE
    /\ lastCancel = "none"

\* Mutant of ForLoop: one iteration too many (range(max_retries + 1)).
ForLoop_OneMore ==
    /\ pc = "for"
    /\ pc' = IF i <= max_retries THEN "price" ELSE "market"
    /\ lastCancel' = "none"
    /\ UNCHANGED <<simulation_mode, client, max_retries, timeout, i, elapsed,
                   status, active_orders, result, limitCalls, marketCalls,
                   priceMisses, envClean>>
    /\ UNCHANGED outsideChase

\* for i in range(max_retries): next iteration, or fall out of the loop.
ForLoop ==
    /\ pc = "for"
    /\ pc' = IF i < max_retries THEN "price" ELSE "market"
    /\ lastCancel' = "none"
    /\ UNCHANGED <<simulation_mode, client, max_retries, timeout, i, elapsed,
                   status, active_orders, result, limitCalls, marketCalls,
                   priceMisses, envClean>>
    /\ UNCHANGED outsideChase

\* Mutant of GetPrice: without a price the same attempt is tried again (the
\* loop counter is not advanced).
GetPrice_SameAttempt ==
    /\ pc = "price"
    /\ \E available \in BOOLEAN :
         IF available
         THEN /\ pc' = "place"
              /\ UNCHANGED <<priceMisses, envClean>>
         ELSE /\ pc' = "for"
              /\ priceMisses' = priceMisses + 1
              /\ envClean' = FALSE
    /\ UNCHANGED <<simulation_mode, client, max_retries, timeout, i, elapsed,
                   status, active_orders, result, limitCalls, marketCalls,
                   lastCancel>>
    /\ UNCHANGED outsideChase

\* current_price = price_provider_callback(symbol, side); no price:
\* sleep(0.5) and continue, which takes the next i of the range.
GetPrice ==
    /\ pc = "price"
    /\ \E available \in BOOLEAN :
         IF available
         THEN /\ pc' = "place"
              /\ UNCHANGED <<i, priceMisses, envClean>>
         ELSE /\ pc' = "for"
              /\ i' = i + 1
              /\ priceMisses' = priceMisses + 1
              /\ envClean' = FALSE
    /\ UNCHANGED <<simulation_mode, client, max_retries, timeout, elapsed,
                   status, active_orders, result, limitCalls, marketCalls,
                   lastCancel>>
    /\ UNCHANGED outsideChase

\* order = await self.place_limit_order(..., post_only=True).
\* Simulation: a NEW mock order, always.  Live: None without a client or when
\* futures_create_order raises, else the broker's order.  None: sleep(0.5)
\* and continue.  Otherwise start_time is taken and polling starts.
PlaceLimit ==
    /\ pc = "place"
    /\ limitCalls' = limitCalls + 1
    /\ \E brokerAccepts \in BOOLEAN :
         LET accepted == simulation_mode \/ (client /\ brokerAccepts) IN
         IF accepted
         THEN /\ active_orders' = active_orders \cup {OrderId(i)}
              /\ pc' = "poll"
              /\ elapsed' = 0
              /\ UNCHANGED <<i, envClean>>
         ELSE /\ pc' = "for"
              /\ i' = i + 1
              /\ envClean' = FALSE
              /\ UNCHANGED <<active_orders, elapsed>>
    /\ UNCHANGED <<simulation_mode, client, max_retries, timeout, status,
                   result, marketCalls, priceMisses, lastCancel>>
    /\ UNCHANGED outsideChase

\* Mutant of PollStatus: the poll loop never sees time pass (start_time is
\* taken again in every turn of the loop).
PollStatus_NoDeadline ==
    /\ pc = "poll"
    /\ elapsed < timeout
    /\ \E st \in Statuses :
         /\ simulation_mode => st = "FILLED"
         /\ (~simulation_mode /\ ~client) => st = "UNKNOWN"
         /\ status' = st
         /\ IF st = "FILLED"
            THEN /\ pc' = "done"
                 /\ result' = "maker_order"
                 /\ envClean' = FALSE
            ELSE IF st \in NonFillTerminal
            THEN /\ pc' = "cancel"
                 /\ UNCHANGED <<result, envClean>>
            ELSE /\ pc' = "poll"
                 /\ envClean' = FALSE
                 /\ UNCHANGED result
    /\ UNCHANGED <<simulation_mode, client, max_retries, timeout, i, elapsed,
                   active_orders, limitCalls, marketCalls, priceMisses,
                   lastCancel>>
    /\ UNCHANGED outsideChase

\* while time.time() - start_time < timeout: one poll.
\* get_order_status: FILLED in simulation, else the broker's answer (UNKNOWN
\* when the request raises, as it always does without a client).
\* FILLED returns the order; CANCELED/EXPIRED/REJECTED leaves the loop
\* unfilled; anything else sleeps 0.5 s and tests the deadline again.
PollStatus ==
    /\ pc = "poll"
    /\ elapsed < timeout
    /\ \E st \in Statuses, took \in 1..2 :
         /\ simulation_mode => st = "FILLED"
         /\ (~simulation_mode /\ ~client) => st = "UNKNOWN"
         /\ status' = st
         /\ IF st = "FILLED"
            THEN /\ pc' = "done"
                 /\ result' = "maker_order"
                 /\ envClean' = FALSE
                 /\ UNCHANGED elapsed
            ELSE IF st \in NonFillTerminal
            THEN /\ pc' = "cancel"
                 /\ UNCHANGED <<result, elapsed, envClean>>
            ELSE /\ pc' = "poll"
                 /\ elapsed' = IF elapsed + took > timeout THEN timeout
                               ELSE elapsed + took
                 /\ envClean' = FALSE
                 /\ UNCHANGED result
    /\ UNCHANGED <<simulation_mode, client, max_retries, timeout, i,
                   active_orders, limitCalls, marketCalls, priceMisses,
                   lastCancel>>
    /\ UNCHANGED outsideChase

\* The while condition is false: the deadline passed (or timeout <= 0) with
\* filled still False.
PollDeadline ==
    /\ pc = "poll"
    /\ elapsed >= timeout
    /\ pc' = "cancel"
    /\ UNCHANGED <<simulation_mode, client, max_retries, timeout, i, elapsed,
                   status, active_orders, result, limitCalls, marketCalls,
                   priceMisses, envClean, lastCancel>>
    /\ UNCHANGED outsideChase

\* Mutant of CancelOrder: cancel_order lets the broker's exception through,
\* which ends the chase.
CancelOrder_Raises ==
    /\ pc = "cancel"
    /\ \E brokerCancels \in BOOLEAN :
         LET ok == simulation_mode \/ (client /\ brokerCancels) IN
         /\ lastCancel' = IF ok THEN "ok" ELSE "failed"
         /\ active_orders' = IF ok THEN active_orders \ {OrderId(i)}
                             ELSE active_orders
         /\ pc' = IF ok THEN "for" ELSE "done"
         /\ i' = IF ok THEN i + 1 ELSE i
         /\ result' = IF ok THEN result ELSE "raised"
    /\ UNCHANGED <<simulation_mode, client, max_retries, timeout, elapsed,
                   status, limitCalls, marketCalls, priceMisses, envClean>>
    /\ UNCHANGED outsideChase

\* await self.cancel_order(symbol, order_id); await asyncio.sleep(0.2).
\* cancel_order pops the order in simulation; live, it pops it when
\* futures_cancel_order succeeds and only logs when it raises.
CancelOrder ==
    /\ pc = "cancel"
    /\ \E brokerCancels \in BOOLEAN :
         LET ok == simulation_mode \/ (client /\ brokerCancels) IN
         /\ lastCancel' = IF ok THEN "ok" ELSE "failed"
         /\ active_orders' = IF ok THEN active_orders \ {OrderId(i)}
                             ELSE active_orders
    /\ pc' = "for"
    /\ i' = i + 1
    /\ UNCHANGED <<simulation_mode, client, max_retries, timeout, elapsed,
                   status, result, limitCalls, marketCalls, priceMisses,
                   envClean>>
    /\ UNCHANGED outsideChase

\* return await self.place_market_order(symbol, side, quantity):
\* a FILLED mock order in simulation, the broker's order live, None when
\* futures_create_order raises.
PlaceMarket ==
    /\ pc = "market"
    /\ marketCalls' = marketCalls + 1
    /\ \E brokerAccepts \in BOOLEAN :
         LET ok == simulation_mode \/ (client /\ brokerAccepts) IN
         result' = IF ok THEN "market_order" ELSE "None"
    /\ pc' = "done"
    /\ UNCHANGED <<simulation_mode, client, max_retries, timeout, i, elapsed,
                   status, active_orders, limitCalls, priceMisses, envClean,
                   lastCancel>>
    /\ UNCHANGED outsideChase

NextChase ==
    \/ ForLoop
    \/ GetPrice
    \/ PlaceLimit
    \/ PollStatus
    \/ PollDeadline
    \/ CancelOrder
    \/ PlaceMarket

-----------------------------------------------------------------------------
(* Order books.  Prices are in units of 0.5, sizes are whole numbers; a book *)
(* side is its list of [price, size] levels, of which only level 1 is read.  *)

Book(bp, bv, ap, av) == [bids |-> << <<bp, bv>> >>, asks |-> << <<ap, av>> >>]
\* No book at all (a symbol the stream has not delivered yet).
NoBook == [bids |-> <<>>, asks |-> <<>>]

BidPrices == {200, 202}
AskPrices == {203, 204}
\* Level-1 sizes as (bid size, ask size).
Sizes == {<<2, 5>>, <<3, 5>>, <<3, 4>>}
ValidBooks == {Book(bp, sz[1], ap, sz[2]) : bp \in BidPrices, ap \in AskPrices,
                                            sz \in Sizes}
\* Books with one side empty (or missing).
EmptySided == {[bids |-> <<>>, asks |-> << <<203, 5>> >>],
               [bids |-> << <<200, 2>> >>, asks |-> <<>>]}
FlowBooks == ValidBooks \cup EmptySided
WarmBooks == {Book(200, 2, 203, 5), Book(202, 3, 203, 5)}
\* SpecRoll: the book may differ from the last one in these updates of an
\* epoch only (counted from 0), and repeats in all others.
RollChangeAt == {1, 2}
OrchBooks == {Book(200, 2, 203, 5), Book(202, 3, 203, 5), Book(200, 3, 204, 4)}
Symbols == {"BTCUSDT", "ETHUSDT"}
ClassifyPrices == {200, 201, 202}
ClassifyVwaps == {201}
\* An OFI far from anything in the history, as get_signal_strength's argument.
SpikeOfis == {-2, 2, 6}

-----------------------------------------------------------------------------
(* MicrostructureAnalyzer *)

\* Python's None in prev_best_bid / prev_best_ask (no price is negative).
None == -1
max_history == 100
\* get_z_score_ofi: samples needed before a z-score is given.
min_samples == 20
\* sigma_threshold = 1.5, as the fraction sigma_num / sigma_den.
sigma_num == 3
sigma_den == 2

RECURSIVE SumSeq(_)
SumSeq(s) == IF s = <<>> THEN 0 ELSE Head(s) + SumSeq(Tail(s))
RECURSIVE SumSq(_)
SumSq(s) == IF s = <<>> THEN 0 ELSE Head(s) * Head(s) + SumSq(Tail(s))

InitAnalyzer ==
    /\ prev_best_bid = None
    /\ prev_best_ask = None
    /\ prev_bid_vol = 0
    /\ prev_ask_vol = 0
    /\ ofi_history = <<>>

\* Mutant of reset: the history is cleared, the stored snapshot is kept.
reset_KeepsSnapshot ==
    /\ ofi_history' = <<>>
    /\ UNCHANGED <<prev_best_bid, prev_best_ask, prev_bid_vol, prev_ask_vol>>

\* MicrostructureAnalyzer.reset
reset ==
    /\ prev_best_bid' = None
    /\ prev_best_ask' = None
    /\ prev_bid_vol' = 0
    /\ prev_ask_vol' = 0
    /\ ofi_history' = <<>>

\* if not orderbook.get('bids') or not orderbook.get('asks'): return 0.0
HasBothSides(orderbook) == orderbook.bids # <<>> /\ orderbook.asks # <<>>

\* if self.prev_best_bid is None
IsFirst == prev_best_bid = None

\* Bid-side contribution, from the stored and the new level 1.
E_n(pbid, pvol, best_bid, bid_vol) ==
    IF best_bid > pbid THEN bid_vol
    ELSE IF best_bid = pbid THEN bid_vol - pvol
    ELSE 0 - pvol

\* Mutant of E_m: the bid side's rule copied to the ask side unreversed.
E_m_Unreversed(pask, pvol, best_ask, ask_vol) ==
    IF best_ask > pask THEN ask_vol
    ELSE IF best_ask = pask THEN ask_vol - pvol
    ELSE 0 - pvol

\* Ask-side contribution.
E_m(pask, pvol, best_ask, ask_vol) ==
    IF best_ask < pask THEN ask_vol
    ELSE IF best_ask = pask THEN ask_vol - pvol
    ELSE 0 - pvol

\* self._update_prev(bb, bv, ba, av)
update_prev(bb, bv, ba, av) ==
    /\ prev_best_bid' = bb
    /\ prev_bid_vol' = bv
    /\ prev_best_ask' = ba
    /\ prev_ask_vol' = av

\* Mutant of Appended: pop() for pop(0), the newest value is dropped.
Appended_DropNewest(h, ofi) ==
    LET a == Append(h, ofi) IN
    IF Len(a) > max_history THEN SubSeq(a, 1, Len(a) - 1) ELSE a

\* self.ofi_history.append(ofi); pop(0) when longer than max_history.
Appended(h, ofi) ==
    LET a == Append(h, ofi) IN
    IF Len(a) > max_history THEN Tail(a) ELSE a

\* Mutant of calculate_ofi: a book with an empty side wipes the analyzer
\* (it is taken for a lost feed) before 0.0 is returned.
calculate_ofi_EmptyWipes(orderbook) ==
    IF ~HasBothSides(orderbook)
    THEN /\ lastOfi' = 0
         /\ reset
    ELSE LET best_bid == orderbook.bids[1][1]
             bid_vol == orderbook.bids[1][2]
             best_ask == orderbook.asks[1][1]
             ask_vol == orderbook.asks[1][2]
         IN  IF IsFirst
             THEN /\ update_prev(best_bid, bid_vol, best_ask, ask_vol)
                  /\ lastOfi' = 0
                  /\ UNCHANGED ofi_history
             ELSE LET e_n == E_n(prev_best_bid, prev_bid_vol, best_bid, bid_vol)
                      e_m == E_m(prev_best_ask, prev_ask_vol, best_ask, ask_vol)
                      ofi == e_n - e_m
                  IN  /\ update_prev(best_bid, bid_vol, best_ask, ask_vol)
                      /\ ofi_history' = Appended(ofi_history, ofi)
                      /\ lastOfi' = ofi

\* MicrostructureAnalyzer.calculate_ofi; lastOfi' is the value returned.
calculate_ofi(orderbook) ==
    IF ~HasBothSides(orderbook)
    THEN /\ lastOfi' = 0
         /\ UNCHANGED analyzerVars
    ELSE LET best_bid == orderbook.bids[1][1]
             bid_vol == orderbook.bids[1][2]
             best_ask == orderbook.asks[1][1]
             ask_vol == orderbook.asks[1][2]
         IN  IF IsFirst
             THEN /\ update_prev(best_bid, bid_vol, best_ask, ask_vol)
                  /\ lastOfi' = 0
                  /\ UNCHANGED ofi_history
             ELSE LET e_n == E_n(prev_best_bid, prev_bid_vol, best_bid, bid_vol)
                      e_m == E_m(prev_best_ask, prev_ask_vol, best_ask, ask_vol)
                      ofi == e_n - e_m
                  IN  /\ update_prev(best_bid, bid_vol, best_ask, ask_vol)
                      /\ ofi_history' = Appended(ofi_history, ofi)
                      /\ lastOfi' = ofi

\* A z-score is kept exact as sign * sqrt(num / den).
ZeroZ == [sign |-> 0, num |-> 0, den |-> 1]

\* Mutant of WarmingUp: a z-score as soon as there are two samples.
WarmingUp_TwoSamples == Len(ofi_history) < 2

\* if len(self.ofi_history) < 20: return 0.0
WarmingUp == Len(ofi_history) < min_samples

\* MicrostructureAnalyzer.get_z_score_ofi.  With n samples of sum S and sum
\* of squares Q, (ofi - mean) / std = (n*ofi - S) / sqrt(n*Q - S*S).
get_z_score_ofi(current_ofi) ==
    IF WarmingUp THEN ZeroZ
    ELSE LET n == Len(ofi_history)
             S == SumSeq(ofi_history)
             Q == SumSq(ofi_history)
             var == n * Q - S * S
             dev == n * current_ofi - S
         IN  IF var = 0 \/ dev = 0 THEN ZeroZ
             ELSE [sign |-> IF dev > 0 THEN 1 ELSE -1,
                   num |-> dev * dev, den |-> var]

\* z_score > sigma_threshold, and z_score < -sigma_threshold
AboveSigma(z) ==
    z.sign = 1 /\ z.num * sigma_den * sigma_den > sigma_num * sigma_num * z.den
BelowSigma(z) ==
    z.sign = -1 /\ z.num * sigma_den * sigma_den > sigma_num * sigma_num * z.den

\* A strength is kept exact as its square, num / den.
\* min(abs(z_score) / 3.0, 1.0)
StrongStrength(z) ==
    IF z.num >= 9 * z.den THEN [num |-> 1, den |-> 1]
    ELSE [num |-> z.num, den |-> 9 * z.den]
\* Mutant of WeakStrength: the strong case's divisor and cap.
WeakStrength_AsStrong(z) ==
    IF z.num >= 9 * z.den THEN [num |-> 1, den |-> 1]
    ELSE [num |-> z.num, den |-> 9 * z.den]

\* min(abs(z_score) / 4.0, 0.7): |z|/4 >= 0.7 iff z*z >= 7.84
WeakStrength(z) ==
    IF 100 * z.num >= 784 * z.den THEN [num |-> 49, den |-> 100]
    ELSE [num |-> z.num, den |-> 16 * z.den]
ZeroStrength == [num |-> 0, den |-> 1]

\* MicrostructureAnalyzer.get_signal_strength
get_signal_strength(ofi, price, vwap) ==
    LET z_score == get_z_score_ofi(ofi) IN
    IF AboveSigma(z_score)
    THEN [direction |-> "BUY",
          strength |-> IF price < vwap THEN StrongStrength(z_score)
                       ELSE WeakStrength(z_score),
          z_score |-> z_score]
    ELSE IF BelowSigma(z_score)
    THEN [direction |-> "SELL",
          strength |-> IF price > vwap THEN StrongStrength(z_score)
                       ELSE WeakStrength(z_score),
          z_score |-> z_score]
    ELSE [direction |-> "NEUTRAL", strength |-> ZeroStrength,
          z_score |-> z_score]

-----------------------------------------------------------------------------
(* Steps on one analyzer, with what the caller observes *)

AnalyzerState == [prev_best_bid |-> prev_best_bid, prev_bid_vol |-> prev_bid_vol,
                  prev_best_ask |-> prev_best_ask, prev_ask_vol |-> prev_ask_vol,
                  ofi_history |-> ofi_history]

\* The state of an analyzer that holds no snapshot and no history.
FreshState == [prev_best_bid |-> None, prev_bid_vol |-> 0,
               prev_best_ask |-> None, prev_ask_vol |-> 0,
               ofi_history |-> <<>>]

NoSignal == [direction |-> "NEUTRAL", strength |-> ZeroStrength, z_score |-> ZeroZ]
NoArgs == [ofi |-> 0, price |-> 0, vwap |-> 0]

InitObs ==
    /\ lastOp = "init"
    /\ lastOfi = 0
    /\ lastBook = NoBook
    /\ before = AnalyzerState
    /\ sinceReset = 0
    /\ nChanges = 0
    /\ nResets = 0
    /\ sig = NoSignal
    /\ sigIn = NoArgs

\* The bookkeeping of one calculate_ofi(book) call.
Observe(book) ==
    /\ lastOp' = "update"
    /\ lastBook' = book
    /\ before' = AnalyzerState
    /\ sinceReset' = sinceReset + 1
    /\ nChanges' = IF sinceReset = 0 \/ book = lastBook THEN nChanges
                   ELSE nChanges + 1
    /\ sig' = NoSignal
    /\ sigIn' = NoArgs
    /\ UNCHANGED nResets

\* ofi = analyzer.calculate_ofi(book)
Update(book) ==
    /\ calculate_ofi(book)
    /\ Observe(book)
    /\ UNCHANGED orchVars
    /\ UNCHANGED outsideFlow

\* analyzer.reset()
Reset ==
    /\ nResets < MaxResets
    /\ sinceReset > 0
    /\ reset
    /\ lastOp' = "reset"
    /\ sinceReset' = 0
    /\ nChanges' = 0
    /\ nResets' = nResets + 1
    /\ lastOfi' = 0
    /\ lastBook' = NoBook
    /\ before' = FreshState
    /\ sig' = NoSignal
    /\ sigIn' = NoArgs
    /\ UNCHANGED orchVars
    /\ UNCHANGED outsideFlow

\* analyzer.get_signal_strength(ofi, price, vwap) after an update.
Classify(ofi, price, vwap) ==
    /\ lastOp = "update"
    /\ sig' = get_signal_strength(ofi, price, vwap)
    /\ sigIn' = [ofi |-> ofi, price |-> price, vwap |-> vwap]
    /\ lastOp' = "classify"
    /\ UNCHANGED <<lastOfi, lastBook, before, sinceReset, nChanges, nResets>>
    /\ UNCHANGED analyzerVars
    /\ UNCHANGED orchVars
    /\ UNCHANGED outsideFlow

FlowUpdate ==
    /\ sinceReset < MaxFlowUpdates
    /\ \E book \in FlowBooks : Update(book)

FlowClassify == \E price \in ClassifyPrices, vwap \in ClassifyVwaps :
    Classify(lastOfi, price, vwap)

NextFlow ==
    \/ FlowUpdate
    \/ Reset
    \/ FlowClassify

\* A long stream: the book repeats, but for MaxChanges changes per epoch.
WarmUpdate ==
    /\ sinceReset < MaxWarmUpdates
    /\ \E book \in WarmBooks :
         /\ sinceReset = 0 \/ book = lastBook \/ nChanges < MaxChanges
         /\ Update(book)

WarmClassify ==
    \E ofi \in {lastOfi} \cup SpikeOfis, price \in ClassifyPrices,
       vwap \in ClassifyVwaps :
        Classify(ofi, price, vwap)

NextWarm ==
    \/ WarmUpdate
    \/ Reset
    \/ WarmClassify

\* A stream longer than max_history: the book changes early in an epoch and
\* then repeats.
RollUpdate ==
    /\ sinceReset < MaxRollUpdates
    /\ \E book \in WarmBooks :
         /\ sinceReset = 0 \/ book = lastBook \/ sinceReset \in RollChangeAt
         /\ Update(book)

NextRoll ==
    \/ RollUpdate
    \/ Reset

-----------------------------------------------------------------------------
(* StreamManager._watch_symbol and NexusPro.on_l2_update *)

\* settings.trading.hft_enabled
hft_enabled == TRUE

InitOrch ==
    /\ orderbooks = [s \in Symbols |-> NoBook]
    /\ symPrev = [s \in Symbols |-> NoBook]
    /\ lastSym = "none"
    /\ prevSym = "none"
    /\ lastSymPrev = NoBook
    /\ afterError = [s \in Symbols |-> FALSE]
    /\ lastAfterError = FALSE

\* NexusPro.on_l2_update(symbol, "ORDER_BOOK", data), up to the OFI: the one
\* analyzer of the process, self.micro_analyzer, takes every symbol's book.
on_l2_update(symbol, data) ==
    IF ~hft_enabled
    THEN UNCHANGED <<analyzerVars, obsVars>>
    ELSE /\ calculate_ofi(data)
         /\ Observe(data)

\* One turn of _watch_symbol's loop that gets a book: it is stored in
\* self.orderbooks[symbol] and handed to the callbacks.
WatchSymbol(symbol, book) ==
    /\ sinceReset < MaxOrchUpdates
    /\ orderbooks' = [orderbooks EXCEPT ![symbol] = book]
    /\ on_l2_update(symbol, book)
    /\ symPrev' = [symPrev EXCEPT ![symbol] = book]
    /\ lastSymPrev' = symPrev[symbol]
    /\ lastSym' = symbol
    /\ prevSym' = lastSym
    /\ lastAfterError' = afterError[symbol]
    /\ afterError' = [afterError EXCEPT ![symbol] = FALSE]
    /\ UNCHANGED outsideFlow

\* One turn of _watch_symbol's loop in which watch_order_book raises: the
\* except clause sleeps 5 s and the loop subscribes again.
StreamError(symbol) ==
    /\ ~afterError[symbol]
    /\ afterError' = [afterError EXCEPT ![symbol] = TRUE]
    /\ UNCHANGED <<orderbooks, symPrev, lastSym, prevSym, lastSymPrev,
                   lastAfterError>>
    /\ UNCHANGED <<analyzerVars, obsVars>>
    /\ UNCHANGED outsideFlow

OrchWatch == \E symbol \in Symbols, book \in OrchBooks : WatchSymbol(symbol, book)
OrchError == \E symbol \in Symbols : StreamError(symbol)

NextOrch ==
    \/ OrchWatch
    \/ OrchError

-----------------------------------------------------------------------------
(* RiskManager: the position ledger (risk/risk_manager.py) *)

\* Money in whole units; drawdown in units of 1 / notional, so that
\* abs(pnl) / 1000 is abs(pnl) and the ceiling 0.10 is notional / 10.
notional == 1000
max_daily_drawdown == notional \div 10

\* Calendar dates, str(date.today()), as day numbers.
Days == {1, 2}
Directions == {"BUY", "SELL"}
EntryPrices == {100}
Quantities == {10}
StopLosses == {95}
TakeProfits == {105}
ExitPrices == {90, 100, 110}
\* max_open_positions as given to RiskManager(); with two symbols, 2 is
\* the limit both the count check and the same-symbol check can refuse at.
OpenLimits == {2}

\* Position(...); pnl defaults to 0.0
Position(direction, entry_price, quantity, stop_loss, take_profit, entry_time) ==
    [direction |-> direction, entry_price |-> entry_price,
     quantity |-> quantity, stop_loss |-> stop_loss,
     take_profit |-> take_profit, entry_time |-> entry_time, pnl |-> 0]

\* The symbol is not a key of the dict / has no row in the table.
NoPos == Position("NONE", 0, 0, 0, 0, 0)

\* DailyStats(date=d)
DailyStats(d) ==
    [date |-> d, total_trades |-> 0, wins |-> 0, losses |-> 0,
     total_pnl |-> 0, max_drawdown |-> 0, current_drawdown |-> 0]

\* A row of table daily_stats: the stats' columns and is_paused.
StatsRow(ds, paused) ==
    [date |-> ds.date, total_trades |-> ds.total_trades, wins |-> ds.wins,
     losses |-> ds.losses, total_pnl |-> ds.total_pnl,
     max_drawdown |-> ds.max_drawdown,
     current_drawdown |-> ds.current_drawdown, is_paused |-> paused]

\* DailyStats(date=row[0], ..., current_drawdown=row[6])
StatsOfRow(row) ==
    [date |-> row.date, total_trades |-> row.total_trades, wins |-> row.wins,
     losses |-> row.losses, total_pnl |-> row.total_pnl,
     max_drawdown |-> row.max_drawdown,
     current_drawdown |-> row.current_drawdown]

\* No row for that date.
NoRow == StatsRow(DailyStats(0), FALSE)

\* len(self.open_positions)
OpenCount == Cardinality({s \in Symbols : open_positions[s] # NoPos})

Abs(x) == IF x < 0 THEN -x ELSE x

\* RiskManager() followed by init_db() on a new risk.db; conn stays unset
\* when aiosqlite.connect fails.
InitStore ==
    /\ today = 1
    /\ open_positions = [s \in Symbols |-> NoPos]
    /\ daily_stats = DailyStats(today)
    /\ is_paused = FALSE
    /\ max_open_positions \in OpenLimits
    /\ conn \in BOOLEAN
    /\ db_stats = [d \in Days |-> NoRow]
    /\ db_positions = [s \in Symbols |-> NoPos]
    /\ lastLedgerOp = "init"
    /\ lastArg = "none"
    /\ lastRet = FALSE
    /\ lastHit = FALSE
    /\ breached = FALSE
    /\ nCloses = 0

\* Mutant of can_open_position: > for >= in the drawdown check.
can_open_position_StrictCeiling(symbol) ==
    /\ IF is_paused
       THEN lastRet' = FALSE /\ UNCHANGED is_paused
       ELSE IF OpenCount >= max_open_positions
       THEN lastRet' = FALSE /\ UNCHANGED is_paused
       ELSE IF open_positions[symbol] # NoPos
       THEN lastRet' = FALSE /\ UNCHANGED is_paused
       ELSE IF daily_stats.current_drawdown > max_daily_drawdown
       THEN lastRet' = FALSE /\ is_paused' = TRUE
       ELSE lastRet' = TRUE /\ UNCHANGED is_paused
    /\ UNCHANGED <<open_positions, daily_stats>>

\* RiskManager.can_open_position; lastRet' is the bool it returns.
can_open_position(symbol) ==
    /\ IF is_paused
       THEN lastRet' = FALSE /\ UNCHANGED is_paused
       ELSE IF OpenCount >= max_open_positions
       THEN lastRet' = FALSE /\ UNCHANGED is_paused
       ELSE IF open_positions[symbol] # NoPos
       THEN lastRet' = FALSE /\ UNCHANGED is_paused
       ELSE IF daily_stats.current_drawdown >= max_daily_drawdown
       THEN lastRet' = FALSE /\ is_paused' = TRUE
       ELSE lastRet' = TRUE /\ UNCHANGED is_paused
    /\ UNCHANGED <<open_positions, daily_stats>>

\* RiskManager.open_position; entry_time is datetime.now(), kept to the day.
open_position(symbol, direction, entry_price, quantity, stop_loss, take_profit) ==
    /\ open_positions' =
           [open_positions EXCEPT ![symbol] =
                Position(direction, entry_price, quantity, stop_loss,
                         take_profit, today)]
    /\ UNCHANGED <<daily_stats, is_paused>>

\* The pnl close_position computes for a position and an exit price.
Pnl(pos, exit_price) ==
    IF pos.direction \in {"BUY", "LONG"}
    THEN (exit_price - pos.entry_price) * pos.quantity
    ELSE (pos.entry_price - exit_price) * pos.quantity

\* Mutant of StatsAfter: a winning close takes its pnl off the drawdown.
StatsAfter_Recovers(ds, pnl) ==
    LET dd == IF pnl < 0 THEN ds.current_drawdown + Abs(pnl)
              ELSE IF pnl > ds.current_drawdown THEN 0
              ELSE ds.current_drawdown - pnl
    IN  [ds EXCEPT !.total_trades = @ + 1,
                   !.total_pnl = @ + pnl,
                   !.wins = IF pnl > 0 THEN @ + 1 ELSE @,
                   !.losses = IF pnl > 0 THEN @ ELSE @ + 1,
                   !.current_drawdown = dd,
                   !.max_drawdown = IF dd > @ THEN dd ELSE @]

\* Mutant of StatsAfter: a close with pnl = 0 is neither a win nor a loss.
StatsAfter_FlatUncounted(ds, pnl) ==
    LET dd == IF pnl < 0 THEN ds.current_drawdown + Abs(pnl)
              ELSE ds.current_drawdown
    IN  [ds EXCEPT !.total_trades = @ + 1,
                   !.total_pnl = @ + pnl,
                   !.wins = IF pnl > 0 THEN @ + 1 ELSE @,
                   !.losses = IF pnl < 0 THEN @ + 1 ELSE @,
                   !.current_drawdown = dd,
                   !.max_drawdown = IF dd > @ THEN dd ELSE @]

\* Mutant of StatsAfter: the high-water mark is left as it was.
StatsAfter_NoHighWater(ds, pnl) ==
    LET dd == IF pnl < 0 THEN ds.current_drawdown + Abs(pnl)
              ELSE ds.current_drawdown
    IN  [ds EXCEPT !.total_trades = @ + 1,
                   !.total_pnl = @ + pnl,
                   !.wins = IF pnl > 0 THEN @ + 1 ELSE @,
                   !.losses = IF pnl > 0 THEN @ ELSE @ + 1,
                   !.current_drawdown = dd]

\* daily_stats after close_position's updates for one pnl.
StatsAfter(ds, pnl) ==
    LET dd == IF pnl < 0 THEN ds.current_drawdown + Abs(pnl)
              ELSE ds.current_drawdown
    IN  [ds EXCEPT !.total_trades = @ + 1,
                   !.total_pnl = @ + pnl,
                   !.wins = IF pnl > 0 THEN @ + 1 ELSE @,
                   !.losses = IF pnl > 0 THEN @ ELSE @ + 1,
                   !.current_drawdown = dd,
                   !.max_drawdown = IF dd > @ THEN dd ELSE @]

\* Mutant of close_position: a symbol that is not open is booked as a
\* trade at pnl 0.
close_position_CountsMissing(symbol, exit_price) ==
    IF open_positions[symbol] = NoPos
    THEN /\ daily_stats' = StatsAfter(daily_stats, 0)
         /\ UNCHANGED <<open_positions, is_paused>>
    ELSE /\ daily_stats' =
                StatsAfter(daily_stats, Pnl(open_positions[symbol], exit_price))
         /\ open_positions' = [open_positions EXCEPT ![symbol] = NoPos]
         /\ UNCHANGED is_paused

\* RiskManager.close_position
close_position(symbol, exit_price) ==
    IF open_positions[symbol] = NoPos
    THEN UNCHANGED <<open_positions, daily_stats, is_paused>>
    ELSE /\ daily_stats' =
                StatsAfter(daily_stats, Pnl(open_positions[symbol], exit_price))
         /\ open_positions' = [open_positions EXCEPT ![symbol] = NoPos]
         /\ UNCHANGED is_paused

\* RiskManager.save_state: the stats row goes under daily_stats.date, the
\* positions table is rewritten, then one commit.
\* On a connection that has been closed the first execute raises, which
\* the except branch logs.
SaveOf(positions, ds, paused) ==
    IF ~conn \/ conn_closed
    THEN UNCHANGED <<db_stats, db_positions>>
    ELSE /\ db_stats' = [db_stats EXCEPT ![ds.date] = StatsRow(ds, paused)]
         /\ db_positions' = positions

save_state == SaveOf(open_positions, daily_stats, is_paused)

\* RiskManager.load_state: the row of date.today() if there is one, else a
\* new DailyStats; then every row of open_positions.
load_state ==
    IF ~conn
    THEN UNCHANGED <<open_positions, daily_stats, is_paused>>
    ELSE /\ IF db_stats[today] # NoRow
            THEN /\ daily_stats' = StatsOfRow(db_stats[today])
                 /\ is_paused' = db_stats[today].is_paused
            ELSE /\ daily_stats' = DailyStats(today)
                 /\ UNCHANGED is_paused
         /\ open_positions' = db_positions

\* The steps of SpecLedger: one RiskManager call each, and the calendar.
Breach(ds) == ds.current_drawdown >= max_daily_drawdown

CanOpen(symbol) ==
    /\ can_open_position(symbol)
    /\ lastLedgerOp' = "can_open"
    /\ lastArg' = symbol
    /\ lastHit' = (open_positions[symbol] # NoPos)
    /\ UNCHANGED <<max_open_positions, conn, db_stats, db_positions, today,
                   breached, nCloses>>
    /\ UNCHANGED outsideLedger

OpenPosition(symbol) ==
    /\ \E direction \in Directions, entry_price \in EntryPrices,
          quantity \in Quantities, stop_loss \in StopLosses,
          take_profit \in TakeProfits :
           open_position(symbol, direction, entry_price, quantity,
                         stop_loss, take_profit)
    /\ lastLedgerOp' = "open"
    /\ lastArg' = symbol
    /\ lastRet' = FALSE
    /\ lastHit' = (open_positions[symbol] # NoPos)
    /\ UNCHANGED <<max_open_positions, conn, db_stats, db_positions, today,
                   breached, nCloses>>
    /\ UNCHANGED outsideLedger

ClosePosition(symbol, budget) ==
    /\ open_positions[symbol] # NoPos => nCloses < budget
    /\ \E exit_price \in ExitPrices : close_position(symbol, exit_price)
    /\ lastLedgerOp' = "close"
    /\ lastArg' = symbol
    /\ lastRet' = FALSE
    /\ lastHit' = (open_positions[symbol] # NoPos)
    /\ breached' = (breached \/ Breach(daily_stats'))
    /\ nCloses' = IF open_positions[symbol] # NoPos THEN nCloses + 1
                  ELSE nCloses
    /\ UNCHANGED <<max_open_positions, conn, db_stats, db_positions, today>>
    /\ UNCHANGED outsideLedger

SaveState ==
    /\ save_state
    /\ lastLedgerOp' = "save"
    /\ lastArg' = "none"
    /\ lastRet' = FALSE
    /\ lastHit' = FALSE
    /\ UNCHANGED <<open_positions, daily_stats, is_paused,
                   max_open_positions, conn, today, breached, nCloses>>
    /\ UNCHANGED outsideLedger

LoadState ==
    /\ load_state
    /\ lastLedgerOp' = "load"
    /\ lastArg' = "none"
    /\ lastRet' = FALSE
    /\ lastHit' = FALSE
    /\ breached' = Breach(daily_stats')
    /\ UNCHANGED <<max_open_positions, conn, db_stats, db_positions, today,
                   nCloses>>
    /\ UNCHANGED outsideLedger

\* Midnight passes: date.today() moves on, the process keeps running.
AdvanceDay ==
    /\ today + 1 \in Days
    /\ today' = today + 1
    /\ lastLedgerOp' = "day"
    /\ lastArg' = "none"
    /\ lastRet' = FALSE
    /\ lastHit' = FALSE
    /\ UNCHANGED <<open_positions, daily_stats, is_paused,
                   max_open_positions, conn, db_stats, db_positions,
                   breached, nCloses>>
    /\ UNCHANGED outsideLedger

LedgerCanOpen == \E symbol \in Symbols : CanOpen(symbol)
LedgerOpen == \E symbol \in Symbols : OpenPosition(symbol)
LedgerClose == \E symbol \in Symbols : ClosePosition(symbol, MaxCloses)
StoreClose == \E symbol \in Symbols : ClosePosition(symbol, MaxStoreCloses)

NextLedger ==
    \/ LedgerCanOpen
    \/ LedgerOpen
    \/ LedgerClose
    \/ AdvanceDay

NextStore ==
    \/ LedgerCanOpen
    \/ LedgerOpen
    \/ StoreClose
    \/ SaveState
    \/ LoadState
    \/ AdvanceDay

-----------------------------------------------------------------------------
(* NexusPro.stop and the public operations of OrderExecutor *)

\* NexusPro as start() has left it; no OrderExecutor call made yet.
InitRun ==
    /\ running = TRUE
    /\ apiOp = "none"
    /\ apiResult = "none"

\* NexusPro.stop, as far as the OrderExecutor goes: _running is cleared and
\* disconnect() closes the client's session.  No order is cancelled, the
\* client attribute stays set, and a chase in flight carries on.
StopBot ==
    /\ running
    /\ running' = FALSE
    /\ UNCHANGED <<apiOp, apiResult>>
    /\ UNCHANGED chaseVars
    /\ UNCHANGED outsideExecutor

NextShutdown ==
    \/ NextChase
    \/ StopBot

\* Order ids of the orders placed through the public operations.
ApiOrderIds == {1, 2, 3}

\* The 'symbol' of the order with that id, as place_limit_order stores it.
OrderSymbol(order_id) == IF order_id = 3 THEN "ETHUSDT" ELSE "BTCUSDT"

\* What the other chase variables are while single operations are called.
ApiRest ==
    UNCHANGED <<pc, max_retries, timeout, i, elapsed, status, result,
                limitCalls, marketCalls, priceMisses, envClean, lastCancel,
                running>>

\* connect(): nothing in simulation; else AsyncClient.create, whose
\* exception is logged and raised again.
connect ==
    /\ apiOp' = "connect"
    /\ IF simulation_mode
       THEN /\ apiResult' = "None"
            /\ UNCHANGED client
       ELSE \E created \in BOOLEAN :
              IF created
              THEN /\ client' = TRUE
                   /\ apiResult' = "None"
              ELSE /\ apiResult' = "raised"
                   /\ UNCHANGED client
    /\ UNCHANGED <<simulation_mode, active_orders>>
    /\ ApiRest
    /\ UNCHANGED outsideExecutor

\* place_limit_order: a mock order in simulation; None without a client or
\* when futures_create_order raises; else the order, which is tracked.
place_limit_order(order_id) ==
    /\ apiOp' = "place_limit"
    /\ \E brokerAccepts \in BOOLEAN :
         LET accepted == simulation_mode \/ (client /\ brokerAccepts) IN
         /\ active_orders' = IF accepted THEN active_orders \cup {order_id}
                             ELSE active_orders
         /\ apiResult' = IF accepted THEN "order" ELSE "None"
    /\ UNCHANGED <<simulation_mode, client>>
    /\ ApiRest
    /\ UNCHANGED outsideExecutor

\* place_market_order: a mock order in simulation; else the broker's order,
\* None when the request raises (as it does without a client).
place_market_order ==
    /\ apiOp' = "place_market"
    /\ \E brokerAccepts \in BOOLEAN :
         LET ok == simulation_mode \/ (client /\ brokerAccepts) IN
         apiResult' = IF ok THEN "order" ELSE "None"
    /\ UNCHANGED <<simulation_mode, client, active_orders>>
    /\ ApiRest
    /\ UNCHANGED outsideExecutor

\* cancel_order: pops the order in simulation or when futures_cancel_order
\* succeeds; a failure is logged.  Returns None either way.
cancel_order(order_id) ==
    /\ apiOp' = "cancel"
    /\ \E brokerCancels \in BOOLEAN :
         LET ok == simulation_mode \/ (client /\ brokerCancels) IN
         active_orders' = IF ok THEN active_orders \ {order_id}
                          ELSE active_orders
    /\ apiResult' = "None"
    /\ UNCHANGED <<simulation_mode, client>>
    /\ ApiRest
    /\ UNCHANGED outsideExecutor

\* cancel_all_orders: clears active_orders in simulation or when
\* futures_cancel_all_open_orders succeeds; a failure is logged.
cancel_all_orders ==
    /\ apiOp' = "cancel_all"
    /\ \E brokerCancels \in BOOLEAN :
         LET ok == simulation_mode \/ (client /\ brokerCancels) IN
         active_orders' = IF ok THEN {} ELSE active_orders
    /\ apiResult' = "None"
    /\ UNCHANGED <<simulation_mode, client>>
    /\ ApiRest
    /\ UNCHANGED outsideExecutor

\* get_order_status: FILLED in simulation, else the broker's status,
\* UNKNOWN when the request raises.
get_order_status ==
    /\ apiOp' = "get_order_status"
    /\ \E st \in Statuses :
         /\ simulation_mode => st = "FILLED"
         /\ (~simulation_mode /\ ~client) => st = "UNKNOWN"
         /\ apiResult' = st
    /\ UNCHANGED <<simulation_mode, client, active_orders>>
    /\ ApiRest
    /\ UNCHANGED outsideExecutor

\* get_open_orders: the tracked orders in simulation, else the broker's
\* list, [] when the request raises.
get_open_orders ==
    /\ apiOp' = "get_open_orders"
    /\ \E brokerAnswers \in BOOLEAN :
         LET ok == simulation_mode \/ (client /\ brokerAnswers) IN
         apiResult' = IF ok THEN "list" ELSE "[]"
    /\ UNCHANGED <<simulation_mode, client, active_orders>>
    /\ ApiRest
    /\ UNCHANGED outsideExecutor

\* get_balance: 1000.0 in simulation; 0.0 without a client, when the
\* request raises or when the asset is not listed.
get_balance ==
    /\ apiOp' = "get_balance"
    /\ \E brokerAnswers \in BOOLEAN, listed \in BOOLEAN :
         LET ok == simulation_mode \/ (client /\ brokerAnswers /\ listed) IN
         apiResult' = IF ok THEN "value" ELSE "0.0"
    /\ UNCHANGED <<simulation_mode, client, active_orders>>
    /\ ApiRest
    /\ UNCHANGED outsideExecutor

\* get_available_balance: as get_balance, but the except branch only logs,
\* so the call returns None when the request raises.
get_available_balance ==
    /\ apiOp' = "get_available_balance"
    /\ \E brokerAnswers \in BOOLEAN, listed \in BOOLEAN :
         apiResult' = IF simulation_mode THEN "value"
                      ELSE IF ~client THEN "0.0"
                      ELSE IF ~brokerAnswers THEN "None"
                      ELSE IF listed THEN "value" ELSE "0.0"
    /\ UNCHANGED <<simulation_mode, client, active_orders>>
    /\ ApiRest
    /\ UNCHANGED outsideExecutor

ApiPlaceLimit == \E order_id \in ApiOrderIds : place_limit_order(order_id)
ApiCancel == \E order_id \in ApiOrderIds : cancel_order(order_id)

NextApi ==
    \/ connect
    \/ ApiPlaceLimit
    \/ place_market_order
    \/ ApiCancel
    \/ cancel_all_orders
    \/ get_order_status
    \/ get_open_orders
    \/ get_balance
    \/ get_available_balance

\* An OrderExecutor as constructed, with or without API keys.
InitApiVars ==
    /\ pc = "idle"
    /\ simulation_mode \in BOOLEAN
    /\ client = FALSE
    /\ max_retries = 0
    /\ timeout = 0
    /\ i = 0
    /\ elapsed = 0
    /\ status = "none"
    /\ active_orders = {}
    /\ result = "pending"
    /\ limitCalls = 0
    /\ marketCalls = 0
    /\ priceMisses = 0
    /\ envClean = TRUE
    /\ lastCancel = "none"

-----------------------------------------------------------------------------
(* The regime classification: NexusPro._hmm_retrain_loop, the HMM reader in *)
(* analyze_symbol and the market_regime reader in on_l2_update               *)

\* NexusPro.__init__: HmmMarketRegime() may fail, leaving hmm_detector None.
InitRegimeVars ==
    /\ hmm_detector \in BOOLEAN
    /\ hmm_lock = "free"
    /\ retrain_pc = "sleep"
    /\ analyze_pc = "idle"
    /\ lastRetrain = "none"
    /\ nRetrains = 0
    /\ lastRead = "none"
    /\ lockAtRead = "free"

\* No retrain loop, no reader.
RegimeIdle ==
    /\ hmm_detector = TRUE
    /\ hmm_lock = "free"
    /\ retrain_pc = "sleep"
    /\ analyze_pc = "idle"
    /\ lastRetrain = "none"
    /\ nRetrains = 0
    /\ lastRead = "none"
    /\ lockAtRead = "free"

\* while self._running: await asyncio.sleep(retrain_interval)
RetrainWake ==
    /\ retrain_pc = "sleep"
    /\ nRetrains < MaxRetrains
    /\ retrain_pc' = "first"
    /\ nRetrains' = nRetrains + 1
    /\ UNCHANGED <<hmm_detector, hmm_lock, analyze_pc, lastRetrain, lastRead,
                   lockAtRead>>
    /\ UNCHANGED outsideRegime

\* The first block: get_klines is called with a limit argument it does not
\* take (and the result is awaited, and self.hmm_regime is not an attribute
\* of NexusPro), so the block raises before the lock is taken; the except
\* branch logs it.  market_regime is therefore never assigned.
RetrainFirst ==
    /\ retrain_pc = "first"
    /\ lastRetrain' = "failed"
    /\ retrain_pc' = IF hmm_detector THEN "second" ELSE "sleep"
    /\ UNCHANGED <<hmm_detector, hmm_lock, analyze_pc, nRetrains, lastRead,
                   lockAtRead>>
    /\ UNCHANGED outsideRegime

\* The second block: with enough 1h data, async with self._hmm_lock (here
\* the lock is taken) and await asyncio.to_thread(self.hmm_detector.train);
\* without, nothing.
RetrainSecond ==
    /\ retrain_pc = "second"
    /\ \E enough \in BOOLEAN :
         IF enough
         THEN /\ hmm_lock = "free"
              /\ hmm_lock' = "retrain"
              /\ retrain_pc' = "train"
              /\ UNCHANGED lastRetrain
         ELSE /\ retrain_pc' = "sleep"
              /\ lastRetrain' = "none"
              /\ UNCHANGED hmm_lock
    /\ UNCHANGED <<hmm_detector, analyze_pc, nRetrains, lastRead, lockAtRead>>
    /\ UNCHANGED outsideRegime

\* The training thread ends: the lock is released; an exception is logged
\* by the except branch.  Either way the loop goes back to sleep.
TrainDone ==
    /\ retrain_pc = "train"
    /\ \E trained \in BOOLEAN :
         lastRetrain' = IF trained THEN "ok" ELSE "failed"
    /\ hmm_lock' = "free"
    /\ retrain_pc' = "sleep"
    /\ UNCHANGED <<hmm_detector, analyze_pc, nRetrains, lastRead, lockAtRead>>
    /\ UNCHANGED outsideRegime

\* analyze_symbol: async with self._hmm_lock: predict_regime(klines_1h).
\* The read is done with the lock held and nothing is awaited inside; when
\* the lock is taken the coroutine waits for it.
AnalyzeRead ==
    /\ hmm_detector
    /\ IF hmm_lock = "free"
       THEN /\ lastRead' = "analyze"
            /\ lockAtRead' = "reader"
            /\ analyze_pc' = "idle"
       ELSE /\ analyze_pc = "idle"
            /\ analyze_pc' = "wait"
            /\ UNCHANGED <<lastRead, lockAtRead>>
    /\ UNCHANGED <<hmm_detector, hmm_lock, retrain_pc, lastRetrain, nRetrains>>
    /\ UNCHANGED outsideRegime

\* on_l2_update: market_trend=self.market_regime, read without the lock.
L2Read ==
    /\ lastRead' = "l2"
    /\ lockAtRead' = hmm_lock
    /\ UNCHANGED <<hmm_detector, hmm_lock, retrain_pc, analyze_pc, lastRetrain,
                   nRetrains>>
    /\ UNCHANGED outsideRegime

NextRegime ==
    \/ RetrainWake
    \/ RetrainFirst
    \/ RetrainSecond
    \/ TrainDone
    \/ AnalyzeRead
    \/ L2Read

-----------------------------------------------------------------------------
(* The running NexusPro around its RiskManager: the handlers that open and *)
(* close positions, stop(), panic_stop, and a kill followed by a restart    *)

\* NexusPro after start(): the feed is connected, the ticker cache is
\* empty, the time-exit task sleeps, stop() has not been called.
InitBotVars ==
    /\ feed = "up"
    /\ tickers = {}
    /\ conn_closed = FALSE
    /\ exit_pc = "sleep"
    /\ nStops = 0

\* What every step of SpecBot records and leaves alone.
BotStep(op, arg) ==
    /\ lastLedgerOp' = op
    /\ lastArg' = arg
    /\ breached' = (breached \/ Breach(daily_stats'))
    /\ UNCHANGED outsideBot

\* daily_stats after close_position has run for every symbol of S.
RECURSIVE StatsAfterAll(_, _, _)
StatsAfterAll(ds, S, exit_price) ==
    IF S = {} THEN ds
    ELSE LET s == CHOOSE x \in S : TRUE
         IN  StatsAfterAll(StatsAfter(ds, Pnl(open_positions[s], exit_price)),
                           S \ {s}, exit_price)

\* NexusPro.close_trade for every symbol of S (all of them open):
\* risk_manager.close_position, then broadcasts; save_state is not called.
close_trade(S, exit_price) ==
    /\ nCloses + Cardinality(S) <= MaxBotCloses
    /\ daily_stats' = StatsAfterAll(daily_stats, S, exit_price)
    /\ open_positions' =
           [s \in Symbols |-> IF s \in S THEN NoPos ELSE open_positions[s]]
    /\ nCloses' = nCloses + Cardinality(S)
    /\ UNCHANGED is_paused

\* DataProvider._process_ticker: the ticker cache gets the symbol's price.
on_ticker(symbol) ==
    /\ feed = "up"
    /\ symbol \notin tickers
    /\ tickers' = tickers \cup {symbol}
    /\ lastRet' = FALSE
    /\ UNCHANGED <<open_positions, daily_stats, is_paused, db_stats,
                   db_positions, nCloses, running, feed, conn_closed, exit_pc,
                   nStops>>
    /\ BotStep("ticker", symbol)

\* NexusPro.on_l2_update.  With a position open: the OFI-reversal exit,
\* which needs a cached ticker.  With none: a signal opens one through
\* risk_manager.open_position; can_open_position is not asked and
\* save_state is not called.
bot_on_l2_update(symbol) ==
    /\ running
    /\ IF open_positions[symbol] # NoPos
       THEN \E reversal \in BOOLEAN, exit_price \in ExitPrices :
              /\ close_trade(IF reversal /\ symbol \in tickers
                             THEN {symbol} ELSE {}, exit_price)
              /\ lastRet' = FALSE
       ELSE \E signal \in BOOLEAN :
              /\ IF signal
                 THEN \E direction \in Directions, entry_price \in EntryPrices,
                         quantity \in Quantities, stop_loss \in StopLosses,
                         take_profit \in TakeProfits :
                          open_position(symbol, direction, entry_price,
                                        quantity, stop_loss, take_profit)
                 ELSE UNCHANGED <<open_positions, daily_stats, is_paused>>
              /\ lastRet' = signal
              /\ UNCHANGED nCloses
    /\ UNCHANGED <<db_stats, db_positions, running, feed, tickers, conn_closed,
                   exit_pc, nStops>>
    /\ BotStep("l2", symbol)

\* NexusPro.manage_positions: has the bar's close hit the target or the stop?
LevelHit(pos, current_price) ==
    \/ pos.direction = "BUY" /\ current_price >= pos.take_profit
    \/ pos.direction = "SELL" /\ current_price <= pos.take_profit
    \/ pos.direction = "BUY" /\ current_price <= pos.stop_loss
    \/ pos.direction = "SELL" /\ current_price >= pos.stop_loss

\* NexusPro.on_candle_close, called by DataProvider._process_kline inside
\* the message loop of DataProvider.start.  manage_positions is awaited
\* outside any try: what it raises leaves on_candle_close and _process_kline
\* and is caught by the except of DataProvider.start, after the loop.  What
\* analyze_symbol raises is caught here.  An analysis that gives a signal
\* asks can_open_position and opens the position; save_state is not called.
on_candle_close(symbol, current_price, outcome) ==
    /\ feed = "up"
    /\ IF ~running
       THEN /\ UNCHANGED <<open_positions, daily_stats, is_paused, nCloses,
                           feed>>
            /\ lastRet' = FALSE
            /\ BotStep("candle", symbol)
       ELSE IF outcome = "manage_raised"
       THEN /\ open_positions[symbol] # NoPos
            /\ UNCHANGED <<open_positions, daily_stats, is_paused, nCloses>>
            /\ feed' = "down"
            /\ lastRet' = FALSE
            /\ BotStep("candle_manage_raised", symbol)
       ELSE IF open_positions[symbol] # NoPos
       THEN /\ close_trade(IF LevelHit(open_positions[symbol], current_price)
                           THEN {symbol} ELSE {}, current_price)
            /\ lastRet' = FALSE
            /\ UNCHANGED feed
            /\ BotStep(IF outcome = "analysis_raised"
                       THEN "candle_analysis_raised" ELSE "candle", symbol)
       ELSE IF outcome = "analysis_raised"
       THEN /\ UNCHANGED <<open_positions, daily_stats, is_paused, nCloses,
                           feed>>
            /\ lastRet' = FALSE
            /\ BotStep("candle_analysis_raised", symbol)
       ELSE \E signal \in BOOLEAN :
              /\ IF ~signal
                 THEN /\ UNCHANGED <<open_positions, daily_stats, is_paused>>
                      /\ lastRet' = FALSE
                 ELSE IF /\ ~is_paused
                         /\ OpenCount < max_open_positions
                         /\ daily_stats.current_drawdown < max_daily_drawdown
                 THEN /\ \E direction \in Directions,
                            entry_price \in EntryPrices,
                            quantity \in Quantities, stop_loss \in StopLosses,
                            take_profit \in TakeProfits :
                             open_position(symbol, direction, entry_price,
                                           quantity, stop_loss, take_profit)
                      /\ lastRet' = TRUE
                 ELSE can_open_position(symbol)
              /\ UNCHANGED <<nCloses, feed>>
              /\ BotStep("candle", symbol)
    /\ UNCHANGED <<db_stats, db_positions, running, tickers, conn_closed,
                   exit_pc, nStops>>

\* One round of _time_based_exit_loop: the task wakes from its sleep,
\* closes the positions that are older than the hold time and have a
\* cached ticker, and tests _running only then.
time_based_exit ==
    /\ exit_pc = "sleep"
    /\ \E aged \in SUBSET {s \in Symbols : open_positions[s] # NoPos},
          exit_price \in ExitPrices :
           close_trade(aged \cap tickers, exit_price)
    /\ exit_pc' = IF running THEN "sleep" ELSE "done"
    /\ lastRet' = FALSE
    /\ UNCHANGED <<db_stats, db_positions, running, feed, tickers, conn_closed,
                   nStops>>
    /\ BotStep("time_exit", "none")

\* NexusPro.stop: _running is cleared, the data provider stops (the message
\* loop ends), RiskManager.close() saves and closes the connection.
stop ==
    /\ nStops < MaxStops
    /\ running' = FALSE
    /\ feed' = "down"
    /\ save_state
    /\ conn_closed' = (conn_closed \/ conn)
    /\ nStops' = nStops + 1
    /\ lastRet' = FALSE
    /\ UNCHANGED <<open_positions, daily_stats, is_paused, nCloses, tickers,
                   exit_pc>>
    /\ BotStep("stop", "none")

\* panic_stop of the API server: close_trade for each open position whose
\* ticker is cached and whose close does not raise (the except branch logs
\* the others), then bot.stop().
panic_stop ==
    /\ nStops < MaxStops
    /\ \E raised \in SUBSET {s \in Symbols : open_positions[s] # NoPos},
          exit_price \in ExitPrices :
           close_trade(({s \in Symbols : open_positions[s] # NoPos}
                            \cap tickers) \ raised, exit_price)
    /\ running' = FALSE
    /\ feed' = "down"
    /\ SaveOf(open_positions', daily_stats', is_paused')
    /\ conn_closed' = (conn_closed \/ conn)
    /\ nStops' = nStops + 1
    /\ lastRet' = FALSE
    /\ UNCHANGED <<tickers, exit_pc>>
    /\ BotStep("panic", "none")

\* The process is killed and started again: a new RiskManager, init_db and
\* load_state on the same risk.db, then start().
restart ==
    /\ open_positions' = db_positions
    /\ daily_stats' = IF db_stats[today] # NoRow
                      THEN StatsOfRow(db_stats[today]) ELSE DailyStats(today)
    /\ is_paused' = IF db_stats[today] # NoRow
                    THEN db_stats[today].is_paused ELSE FALSE
    /\ running' = TRUE
    /\ feed' = "up"
    /\ tickers' = {}
    /\ conn_closed' = FALSE
    /\ exit_pc' = "sleep"
    /\ nStops' = 0
    /\ lastRet' = FALSE
    /\ UNCHANGED <<db_stats, db_positions, nCloses>>
    /\ BotStep("restart", "none")

NextBot ==
    \/ \E symbol \in Symbols : on_ticker(symbol)
    \/ \E symbol \in Symbols : bot_on_l2_update(symbol)
    \/ \E symbol \in Symbols, current_price \in ExitPrices,
          outcome \in {"ok", "manage_raised", "analysis_raised"} :
           on_candle_close(symbol, current_price, outcome)
    \/ time_based_exit
    \/ stop
    \/ panic_stop
    \/ restart

-----------------------------------------------------------------------------
(* RiskManager.save_state one await at a time.  Each execute is awaited,  *)
(* so the handlers that open and close positions run in between.          *)

\* The ledger as it is in memory.
Ledger == <<open_positions, daily_stats, is_paused>>

\* No save in progress, nothing in the transaction.
InitSaveVars ==
    /\ save_pc = "idle"
    /\ tx_stats = NoRow
    /\ tx_positions = [s \in Symbols |-> NoPos]
    /\ iter_size = 0
    /\ seen = {Ledger}

\* What every step of SpecSave records and leaves alone.
SaveStep(op, arg) ==
    /\ lastLedgerOp' = op
    /\ lastArg' = arg
    /\ UNCHANGED outsideSave
    /\ seen' = seen \cup {Ledger'}

\* RiskManager.open_position, called by a handler.
save_open(symbol) ==
    /\ open_position(symbol, "BUY", 100, 10, 95, 105)
    /\ UNCHANGED <<db_stats, db_positions, nCloses, save_pc, tx_stats,
                   tx_positions, iter_size>>
    /\ SaveStep("open", symbol)

\* RiskManager.close_position of an open position, called by a handler.
save_close(symbol) ==
    /\ open_positions[symbol] # NoPos
    /\ nCloses < MaxSaveCloses
    /\ \E exit_price \in ExitPrices : close_position(symbol, exit_price)
    /\ nCloses' = nCloses + 1
    /\ UNCHANGED <<db_stats, db_positions, save_pc, tx_stats, tx_positions,
                   iter_size>>
    /\ SaveStep("close", symbol)

\* save_state up to its first await: the lock is taken and the INSERT OR
\* REPLACE of daily_stats is issued with the values of this moment.
save_begin ==
    /\ conn
    /\ save_pc = "idle"
    /\ save_pc' = "stats"
    /\ tx_stats' = StatsRow(daily_stats, is_paused)
    /\ tx_positions' = db_positions
    /\ UNCHANGED <<open_positions, daily_stats, db_stats, db_positions,
                   nCloses, iter_size>>
    /\ SaveStep("save_begin", "none")

\* The INSERT has returned: DELETE FROM open_positions is issued.
save_delete ==
    /\ save_pc = "stats"
    /\ save_pc' = "delete"
    /\ tx_positions' = [s \in Symbols |-> NoPos]
    /\ UNCHANGED <<open_positions, daily_stats, db_stats, db_positions,
                   nCloses, tx_stats, iter_size>>
    /\ SaveStep("save_delete", "none")

\* commit(): the transaction becomes the content of risk.db.
Commit ==
    /\ db_stats' = [db_stats EXCEPT ![tx_stats.date] = tx_stats]
    /\ db_positions' = tx_positions
    /\ save_pc' = "idle"
    /\ UNCHANGED <<tx_stats, tx_positions, iter_size>>

\* The loop over self.open_positions.items(): the iterator is made when
\* the DELETE has returned; each later round begins when the previous
\* INSERT has returned.  A dict whose size has changed since the iterator
\* was made raises RuntimeError, which the except branch logs: no commit
\* (the next save_state rewrites the same row and table before it commits).
\* Otherwise the next entry not yet written is inserted as it is now, and
\* after the last one commit() is called.
save_insert ==
    /\ save_pc \in {"delete", "insert"}
    /\ UNCHANGED <<open_positions, daily_stats, nCloses>>
    /\ LET open == {s \in Symbols : open_positions[s] # NoPos}
           rest == {s \in open : tx_positions[s] = NoPos}
       IN  IF save_pc = "insert" /\ Cardinality(open) # iter_size
           THEN /\ save_pc' = "idle"
                /\ UNCHANGED <<db_stats, db_positions, tx_stats, tx_positions,
                               iter_size>>
                /\ SaveStep("save_raised", "none")
           ELSE IF rest = {}
           THEN /\ Commit
                /\ SaveStep("save_commit", "none")
           ELSE /\ \E s \in rest :
                     tx_positions' =
                         [tx_positions EXCEPT ![s] = open_positions[s]]
                /\ save_pc' = "insert"
                /\ iter_size' = IF save_pc = "delete" THEN Cardinality(open)
                                ELSE iter_size
                /\ UNCHANGED <<db_stats, db_positions, tx_stats>>
                /\ SaveStep("save_insert", "none")

NextSave ==
    \/ \E symbol \in Symbols : save_open(symbol)
    \/ \E symbol \in Symbols : save_close(symbol)
    \/ save_begin
    \/ save_delete
    \/ save_insert

-----------------------------------------------------------------------------
(* RiskManager.calculate_position_size.  Amounts are whole numbers,       *)
(* confidence is in hundredths, results are exact fractions n / d.        *)

max_position_size == 2      \* RiskSettings.max_position_size, in hundredths
cooldown_seconds == 30      \* on_l2_update
min_hold_time == 10         \* on_l2_update
ofi_exit_threshold == 6     \* on_l2_update: 0.6, in tenths
min_balance == 10           \* on_l2_update, execute_trade
default_sl_percent == 1     \* RiskSettings.default_sl_percent

SizeBalances == {1, 100, 1000}
SizeEntries == {1, 50, 100}
SizeStops == {0, 1, 50, 95, 100, 105}
SizeConfidences == {0, 50, 70, 100}

RECURSIVE Gcd(_, _)
Gcd(a, b) == IF b = 0 THEN a ELSE Gcd(b, a % b)

\* The fraction n / d (d > 0) in lowest terms.
Frac(n, d) == [status |-> "ok", n |-> n \div Gcd(n, d), d |-> d \div Gcd(n, d)]

\* What a call that raised leaves, and what there is before the first call.
NoSize(how) == [status |-> how, n |-> 0, d |-> 1]

\* No call of calculate_position_size made yet.
\* No handler of an entry path is running; the clock is at 0.
HandlersIdle ==
    /\ now = 0
    /\ l2_pc = [s \in Symbols |-> "idle"]
    /\ l2_ofi = 0
    /\ bar_pc = "idle"
    /\ bar_symbol = "BTCUSDT"
    /\ cooldowns = [s \in Symbols |-> {}]
    /\ entry_at = [s \in Symbols |-> 0]
    /\ orders = [s \in Symbols |-> 0]
    /\ nSignals = 0

InitEntryVars ==
    /\ size_in = [balance |-> 0, entry |-> 0, stop |-> 0, confidence |-> 0]
    /\ size_out = NoSize("none")
    /\ filled = {}
    /\ watched = Symbols
    /\ overdue = {}
    /\ exit_sel = {}
    /\ HandlersIdle

\* a <= b for fractions.
FracLeq(a, b) == a.n * b.d <= b.n * a.d

\* min(a, b), which returns a when the two are equal.
FracMin(a, b) == IF FracLeq(a, b) THEN a ELSE b

\* a / b for fractions, b # 0.
FracDiv(a, b) == Frac(a.n * b.d, a.d * b.n)

\* Mutant of calculate_position_size: the ceiling of 10% of the balance is
\* not applied.
calculate_position_size_Uncapped(account_balance, entry_price, stop_loss, confidence) ==
    LET risk_amount ==
            Frac(account_balance * max_position_size * confidence, 10000)
        sl_distance == IF Abs(entry_price - stop_loss) = 0
                       THEN Frac(entry_price * default_sl_percent, 100)
                       ELSE Frac(Abs(entry_price - stop_loss), 1)
    IN  IF sl_distance.n = 0 \/ entry_price = 0
        THEN NoSize("ZeroDivisionError")
        ELSE FracDiv(risk_amount, sl_distance)

\* RiskManager.calculate_position_size
calculate_position_size(account_balance, entry_price, stop_loss, confidence) ==
    LET risk_amount ==
            Frac(account_balance * max_position_size * confidence, 10000)
        sl_distance == IF Abs(entry_price - stop_loss) = 0
                       THEN Frac(entry_price * default_sl_percent, 100)
                       ELSE Frac(Abs(entry_price - stop_loss), 1)
        max_qty == Frac(account_balance, 10 * entry_price)
    IN  IF sl_distance.n = 0 \/ entry_price = 0
        THEN NoSize("ZeroDivisionError")
        ELSE FracMin(FracDiv(risk_amount, sl_distance), max_qty)

\* One call, with arguments from the grid.
CalculateSize ==
    /\ \E account_balance \in SizeBalances, entry_price \in SizeEntries,
          stop_loss \in SizeStops, confidence \in SizeConfidences :
          /\ size_in' = [balance |-> account_balance, entry |-> entry_price,
                         stop |-> stop_loss, confidence |-> confidence]
          /\ size_out' = calculate_position_size(account_balance, entry_price,
                                                 stop_loss, confidence)
    /\ UNCHANGED <<chaseVars, analyzerVars, obsVars, orchVars, ledgerVars,
                   ledgerObs, runVars, regimeVars, botVars, saveVars>>
    /\ UNCHANGED <<filled, exitVars, handlerVars>>

NextSize == CalculateSize

\* The exchange fills the resting limit order of this attempt after the
\* last get_order_status of the poll loop and before cancel_order's request
\* is served (live mode; the last status seen was not a terminal one).
ExchangeFill ==
    /\ pc = "cancel"
    /\ ~simulation_mode /\ client
    /\ status \notin NonFillTerminal
    /\ OrderId(i) \in active_orders
    /\ OrderId(i) \notin filled
    /\ filled' = filled \cup {OrderId(i)}
    /\ UNCHANGED <<size_in, size_out, exitVars, handlerVars>>
    /\ UNCHANGED <<chaseVars, analyzerVars, obsVars, orchVars, ledgerVars,
                   ledgerObs, runVars, regimeVars, botVars, saveVars>>

NextFill ==
    \/ NextChase
    \/ ExchangeFill

-----------------------------------------------------------------------------
(* NexusPro._time_based_exit_loop, one await at a time, in a process that *)
(* start() has brought up on an existing risk.db                          *)

\* After start(): init_db has loaded the positions the last run left in
\* risk.db (none, or some), get_top_volatile_symbols has chosen the symbols
\* of this run, the ticker cache is empty, the scan sleeps.
InitExitVars ==
    /\ size_in = [balance |-> 0, entry |-> 0, stop |-> 0, confidence |-> 0]
    /\ size_out = NoSize("none")
    /\ filled = {}
    /\ watched \in SUBSET Symbols \ {{}}
    /\ overdue = {}
    /\ exit_sel = {}
    /\ HandlersIdle

outsideExit == <<chaseVars, analyzerVars, obsVars, orchVars, regimeVars,
                 runVars, saveVars, size_in, size_out, filled, watched, handlerVars,
                 feed,
                 conn_closed, nStops, max_open_positions, conn, today,
                 db_stats, lastRet, lastHit, breached>>

\* What every step of SpecExit records and leaves alone.
ExitStep(op, arg) ==
    /\ lastLedgerOp' = op
    /\ lastArg' = arg
    /\ UNCHANGED outsideExit

\* RiskManager.load_state, at start: one more position of risk.db.
exit_load(symbol) ==
    /\ lastLedgerOp \in {"init", "load"}
    /\ open_positions[symbol] = NoPos
    /\ open_position(symbol, "BUY", 100, 10, 95, 105)
    /\ db_positions' = [db_positions EXCEPT ![symbol] = open_positions'[symbol]]
    /\ nCloses' = nCloses + 1
    /\ UNCHANGED <<tickers, exit_pc, overdue, exit_sel>>
    /\ ExitStep("load", symbol)

\* An entry handler opens a position for a symbol of this run.
exit_open(symbol) ==
    /\ running
    /\ symbol \in watched
    /\ open_positions[symbol] = NoPos
    /\ nCloses < MaxExitTrades
    /\ open_position(symbol, "BUY", 100, 10, 95, 105)
    /\ nCloses' = nCloses + 1
    /\ UNCHANGED <<db_positions, tickers, exit_pc, overdue, exit_sel>>
    /\ ExitStep("open", symbol)

\* Time passes: the position of the symbol is now older than
\* max_scalp_hold_time.
exit_age(symbol) ==
    /\ open_positions[symbol] # NoPos
    /\ symbol \notin overdue
    /\ overdue' = overdue \cup {symbol}
    /\ UNCHANGED <<open_positions, daily_stats, is_paused, db_positions,
                   nCloses, tickers, exit_pc, exit_sel>>
    /\ ExitStep("age", symbol)

\* DataProvider._process_ticker, for a symbol whose stream is open.
exit_ticker(symbol) ==
    /\ feed = "up"
    /\ symbol \in watched
    /\ symbol \notin tickers
    /\ tickers' = tickers \cup {symbol}
    /\ UNCHANGED <<open_positions, daily_stats, is_paused, db_positions,
                   nCloses, exit_pc, overdue, exit_sel>>
    /\ ExitStep("ticker", symbol)

\* Another path (stop/target on a bar close, OFI reversal) closes the
\* position of the symbol through close_trade.
exit_close_other(symbol) ==
    /\ running
    /\ symbol \in watched
    /\ open_positions[symbol] # NoPos
    /\ \E exit_price \in ExitPrices : close_position(symbol, exit_price)
    /\ overdue' = overdue \ {symbol}
    /\ UNCHANGED <<db_positions, nCloses, tickers, exit_pc, exit_sel>>
    /\ ExitStep("close_other", symbol)

\* The second loop of the scan, from where it is to its next await: the
\* selected symbols without a cached ticker are passed over; for one with a
\* ticker close_trade runs, which closes whatever position the symbol has
\* now (close_position takes the symbol) and then awaits its broadcasts.
\* With nothing left to close the round ends and _running is tested; the
\* record tells a round from the round before it.
CloseSelected(selected) ==
    IF selected \cap tickers = {}
    THEN /\ exit_sel' = {}
         /\ exit_pc' = IF running THEN "sleep" ELSE "done"
         /\ UNCHANGED <<open_positions, daily_stats, is_paused, overdue>>
         /\ ExitStep(IF lastLedgerOp = "scan_end" THEN "scan_again"
                     ELSE "scan_end", "none")
    ELSE \E symbol \in selected \cap tickers, exit_price \in ExitPrices :
           /\ close_position(symbol, exit_price)
           /\ overdue' = overdue \ {symbol}
           /\ exit_sel' = selected \ {symbol}
           /\ exit_pc' = "closing"
           /\ ExitStep(IF open_positions[symbol] # NoPos THEN "scan_close"
                       ELSE "scan_miss", symbol)

\* The scan wakes from its sleep: the first loop selects the positions
\* older than the hold time (no await), then the second loop starts.
exit_scan ==
    /\ exit_pc = "sleep"
    /\ CloseSelected({s \in Symbols : open_positions[s] # NoPos /\ s \in overdue})
    /\ UNCHANGED <<db_positions, nCloses, tickers>>

\* close_trade has returned: the second loop goes on with what is left of
\* positions_to_close.
exit_resume ==
    /\ exit_pc = "closing"
    /\ CloseSelected(exit_sel)
    /\ UNCHANGED <<db_positions, nCloses, tickers>>

NextExit ==
    \/ \E symbol \in Symbols : exit_load(symbol)
    \/ \E symbol \in Symbols : exit_open(symbol)
    \/ \E symbol \in Symbols : exit_age(symbol)
    \/ \E symbol \in Symbols : exit_ticker(symbol)
    \/ \E symbol \in Symbols : exit_close_other(symbol)
    \/ exit_scan
    \/ exit_resume

-----------------------------------------------------------------------------
(* The two entry paths of NexusPro, one await at a time: on_l2_update per *)
(* symbol (StreamManager._watch_symbol awaits it, one task per symbol)    *)
(* and on_candle_close (DataProvider awaits it inside its message loop)   *)

EntryLimits == {1}             \* settings.trading.max_open_positions
OfiLevels == {-7, -6, 7}       \* OFI of an update, in tenths
L2Signals == {"NONE", "BUY"}   \* what generate_signal gives on_l2_update
BarSignals == {"NONE", "SELL"}  \* what it gives analyze_symbol
BarSymbols == {"BTCUSDT"}       \* the symbols whose bars close
TickerSymbols == {"BTCUSDT"}    \* the symbols whose ticker arrives
TickerPrices == {90, 110}       \* the cached price at a reversal exit
Balances == {5, 100}           \* what get_balance returns

\* After start() on a fresh risk.db.
InitEntryLedger ==
    /\ today = 1
    /\ open_positions = [s \in Symbols |-> NoPos]
    /\ daily_stats = DailyStats(today)
    /\ is_paused = FALSE
    /\ max_open_positions \in EntryLimits
    /\ conn = TRUE
    /\ db_stats = [d \in Days |-> NoRow]
    /\ db_positions = [s \in Symbols |-> NoPos]
    /\ lastLedgerOp = "init"
    /\ lastArg = "none"
    /\ lastRet = FALSE
    /\ lastHit = FALSE
    /\ breached = FALSE
    /\ nCloses = 0

outsideEntry == <<chaseVars, analyzerVars, obsVars, orchVars, regimeVars,
                  runVars, saveVars, botVars, size_in, size_out, filled,
                  exitVars, max_open_positions, conn, today, db_stats,
                  db_positions, lastHit, breached>>

\* What every step of SpecEntry records and leaves alone.
EntryStep(op, arg) ==
    /\ lastLedgerOp' = op
    /\ lastArg' = arg
    /\ UNCHANGED outsideEntry

\* Time passes.
Tick ==
    /\ now < MaxClock
    /\ now' = now + TickSeconds
    /\ UNCHANGED <<open_positions, daily_stats, is_paused, lastRet, nCloses,
                   l2_pc, l2_ofi, bar_pc, bar_symbol, cooldowns, entry_at,
                   orders, nSignals>>
    /\ EntryStep("tick", "none")

\* Mutant of InCooldown: the stamp is never looked at.
InCooldown_Never(symbol) == FALSE

\* on_l2_update, step 3: is the symbol's last accepted signal less than
\* cooldown_seconds old?
InCooldown(symbol) ==
    \E stamp \in cooldowns[symbol] : now - stamp < cooldown_seconds

\* Mutant of TooYoung: the hold time is not looked at.
TooYoung_Never(symbol) == FALSE

\* on_l2_update, step 2: is the position held for less than min_hold_time?
TooYoung(symbol) == now - entry_at[symbol] < min_hold_time

\* The OFI-reversal condition of on_l2_update.
Reversal(pos, ofi) ==
    \/ pos.direction = "BUY" /\ ofi < -ofi_exit_threshold
    \/ pos.direction = "SELL" /\ ofi > ofi_exit_threshold

\* risk_manager.open_position from an entry path, at the present time.
EntryOpen(symbol, direction) ==
    /\ \E entry_price \in EntryPrices, quantity \in Quantities :
           open_position(symbol, direction, entry_price, quantity,
                         IF direction = "BUY" THEN 95 ELSE 105,
                         IF direction = "BUY" THEN 105 ELSE 95)
    /\ entry_at' = [entry_at EXCEPT ![symbol] = now]

\* close_trade from an entry path: close_position, then broadcasts.
EntryClose(symbol, exit_price) ==
    /\ nCloses < MaxEntryCloses
    /\ close_position(symbol, exit_price)
    /\ nCloses' = nCloses + 1
    /\ entry_at' = [entry_at EXCEPT ![symbol] = 0]
    /\ orders' = [orders EXCEPT ![symbol] = 0]

\* on_l2_update from the return of broadcast_ofi (its first await, before
\* which it only computes the ofi) to its next await.  The ofi of the update
\* is drawn where it is read, the signal where it is generated.  With a
\* position:
\* minimum hold, then the reversal exit, which needs a cached ticker, and
\* return.  With none: cooldown, signal, the cooldown stamp, and on to the
\* broadcast and the balance queries.
l2_check(symbol) ==
    /\ l2_pc[symbol] = "idle"
    /\ UNCHANGED <<now, bar_pc, bar_symbol, lastRet>>
    /\ IF open_positions[symbol] # NoPos
       THEN /\ UNCHANGED <<l2_pc, cooldowns, nSignals>>
            /\ IF TooYoung(symbol)
               THEN /\ l2_ofi' = 0
                    /\ UNCHANGED <<open_positions, daily_stats, is_paused,
                                   nCloses, entry_at, orders>>
                    /\ EntryStep("l2_keep", symbol)
               ELSE \E ofi \in OfiLevels :
                      /\ l2_ofi' = ofi
                      /\ IF Reversal(open_positions[symbol], ofi)
                            /\ symbol \in tickers
                         THEN /\ \E exit_price \in TickerPrices :
                                    EntryClose(symbol, exit_price)
                              /\ EntryStep("l2_reversal", symbol)
                         ELSE /\ UNCHANGED <<open_positions, daily_stats,
                                             is_paused, nCloses, entry_at,
                                             orders>>
                              /\ EntryStep("l2_keep", symbol)
       ELSE /\ l2_ofi' = 0
            /\ UNCHANGED <<open_positions, daily_stats, is_paused, nCloses,
                           entry_at, orders>>
            /\ IF InCooldown(symbol)
               THEN /\ UNCHANGED <<l2_pc, cooldowns, nSignals>>
                    /\ EntryStep("l2_pass", symbol)
               ELSE \E signal \in L2Signals :
                      /\ signal # "NONE" => nSignals < MaxSignals
                      /\ IF signal = "NONE"
                         THEN /\ UNCHANGED <<l2_pc, cooldowns, nSignals>>
                              /\ EntryStep("l2_pass", symbol)
                         ELSE /\ l2_pc' = [l2_pc EXCEPT ![symbol] = signal]
                              /\ cooldowns' =
                                     [cooldowns EXCEPT ![symbol] = {now}]
                              /\ nSignals' = nSignals + 1
                              /\ EntryStep("l2_accept", symbol)

\* on_l2_update after the balance queries: too little balance ends it; in
\* simulation mode no order is placed and the position is recorded at once;
\* live, the chase is awaited.
l2_balance(symbol, balance, live) ==
    /\ l2_pc[symbol] \in Directions
    /\ UNCHANGED <<daily_stats, is_paused, nCloses, now, l2_ofi, bar_pc,
                   bar_symbol, cooldowns, orders, nSignals>>
    /\ IF balance < min_balance
       THEN /\ l2_pc' = [l2_pc EXCEPT ![symbol] = "idle"]
            /\ UNCHANGED <<open_positions, entry_at, lastRet>>
            /\ EntryStep("l2_poor", symbol)
       ELSE IF live
       THEN /\ l2_pc' = [l2_pc EXCEPT ![symbol] =
                             IF l2_pc[symbol] = "BUY" THEN "chase_buy"
                             ELSE "chase_sell"]
            /\ UNCHANGED <<open_positions, entry_at, lastRet>>
            /\ EntryStep("l2_chase", symbol)
       ELSE /\ l2_pc' = [l2_pc EXCEPT ![symbol] = "idle"]
            /\ EntryOpen(symbol, l2_pc[symbol])
            /\ lastRet' = FALSE
            /\ EntryStep("l2_open", symbol)

\* on_l2_update after place_maker_order_with_chase: what the chase returned
\* (an order, or None) is dropped and the position is recorded.
l2_chased(symbol, order) ==
    /\ l2_pc[symbol] \in {"chase_buy", "chase_sell"}
    /\ l2_pc' = [l2_pc EXCEPT ![symbol] = "idle"]
    /\ EntryOpen(symbol, IF l2_pc[symbol] = "chase_buy" THEN "BUY" ELSE "SELL")
    /\ orders' = [orders EXCEPT ![symbol] = @ + (IF order THEN 1 ELSE 0)]
    /\ lastRet' = order
    /\ UNCHANGED <<daily_stats, is_paused, nCloses, now, l2_ofi, bar_pc,
                   bar_symbol, cooldowns, nSignals>>
    /\ EntryStep("l2_open", symbol)

\* on_candle_close, manage_positions: the bar's close has hit the stop or
\* the target; close_trade closes the position and awaits its broadcasts.
bar_manage(symbol, current_price) ==
    /\ running
    /\ bar_pc = "idle"
    /\ open_positions[symbol] # NoPos
    /\ LevelHit(open_positions[symbol], current_price)
    /\ EntryClose(symbol, current_price)
    /\ bar_pc' = "analyze"
    /\ bar_symbol' = symbol
    /\ UNCHANGED <<lastRet, now, l2_pc, l2_ofi, cooldowns, nSignals>>
    /\ EntryStep("bar_close", symbol)

\* analyze_symbol, from the bar (no level hit) or from where manage_positions
\* left off, to its first await: no signal ends it; a signal asks
\* can_open_position, and an approved one goes on to the broadcasts and to
\* execute_trade's balance queries.
bar_analyze(symbol, signal) ==
    /\ running
    /\ \/ bar_pc = "idle"
       \/ bar_pc = "analyze" /\ bar_symbol = symbol
    /\ signal # "NONE" => nSignals < MaxSignals
    /\ UNCHANGED <<nCloses, now, l2_pc, l2_ofi, cooldowns, entry_at, orders>>
    /\ IF signal = "NONE"
       THEN /\ bar_pc' = "idle"
            /\ bar_symbol' = "BTCUSDT"
            /\ UNCHANGED <<open_positions, daily_stats, is_paused, lastRet,
                           nSignals>>
            /\ EntryStep("bar_pass", symbol)
       ELSE /\ can_open_position(symbol)
            /\ bar_pc' = IF lastRet' THEN signal ELSE "idle"
            /\ bar_symbol' = IF lastRet' THEN symbol ELSE "BTCUSDT"
            /\ nSignals' = IF lastRet' THEN nSignals + 1 ELSE nSignals
            /\ EntryStep(IF lastRet' THEN "bar_approve" ELSE "bar_pass",
                         symbol)

\* execute_trade after the balance queries: too little balance or margin
\* ends it; otherwise place_limit_order(post_only) is awaited.
bar_balance(balance, margin) ==
    /\ bar_pc \in Directions
    /\ bar_pc' = IF balance < min_balance \/ ~margin THEN "idle"
                 ELSE IF bar_pc = "BUY" THEN "order_buy" ELSE "order_sell"
    /\ UNCHANGED <<open_positions, daily_stats, is_paused, lastRet, nCloses,
                   now, l2_pc, l2_ofi, cooldowns, entry_at, orders, nSignals>>
    /\ bar_symbol' = IF bar_pc' = "idle" THEN "BTCUSDT" ELSE bar_symbol
    /\ EntryStep(IF balance < min_balance \/ ~margin THEN "bar_poor"
                 ELSE "bar_order", bar_symbol)

\* execute_trade after place_limit_order: the position is recorded if the
\* engine returned an order.
bar_ordered(order) ==
    /\ bar_pc \in {"order_buy", "order_sell"}
    /\ bar_pc' = "idle"
    /\ lastRet' = order
    /\ bar_symbol' = "BTCUSDT"
    /\ UNCHANGED <<daily_stats, is_paused, nCloses, now, l2_pc, l2_ofi,
                   cooldowns, nSignals>>
    /\ IF order
       THEN /\ EntryOpen(bar_symbol,
                         IF bar_pc = "order_buy" THEN "BUY" ELSE "SELL")
            /\ orders' = [orders EXCEPT ![bar_symbol] = @ + 1]
            /\ EntryStep("bar_open", bar_symbol)
       ELSE /\ UNCHANGED <<open_positions, entry_at, orders>>
            /\ EntryStep("bar_rejected", bar_symbol)

NextEntry ==
    \/ Tick
    \/ \E symbol \in Symbols : l2_check(symbol)
    \/ \E symbol \in Symbols, balance \in Balances, live \in BOOLEAN :
           l2_balance(symbol, balance, live)
    \/ \E symbol \in Symbols, order \in BOOLEAN : l2_chased(symbol, order)
    \/ \E symbol \in BarSymbols, current_price \in ExitPrices :
           bar_manage(symbol, current_price)
    \/ \E symbol \in BarSymbols, signal \in BarSignals :
           bar_analyze(symbol, signal)
    \/ \E balance \in Balances, margin \in BOOLEAN :
           bar_balance(balance, margin)
    \/ \E order \in BOOLEAN : bar_ordered(order)
    \/ \E symbol \in TickerSymbols : on_ticker(symbol)

-----------------------------------------------------------------------------
(* Specifications *)

\* No chase in progress.
ChaseIdle ==
    /\ pc = "idle"
    /\ simulation_mode = TRUE
    /\ client = FALSE
    /\ max_retries = 0
    /\ timeout = 0
    /\ i = 0
    /\ elapsed = 0
    /\ status = "none"
    /\ active_orders = {}
    /\ result = "pending"
    /\ limitCalls = 0
    /\ marketCalls = 0
    /\ priceMisses = 0
    /\ envClean = TRUE
    /\ lastCancel = "none"

\* A RiskManager as constructed, no database connected.
InitLedger ==
    /\ today = 1
    /\ open_positions = [s \in Symbols |-> NoPos]
    /\ daily_stats = DailyStats(today)
    /\ is_paused = FALSE
    /\ max_open_positions \in OpenLimits
    /\ conn = FALSE
    /\ db_stats = [d \in Days |-> NoRow]
    /\ db_positions = [s \in Symbols |-> NoPos]
    /\ lastLedgerOp = "init"
    /\ lastArg = "none"
    /\ lastRet = FALSE
    /\ lastHit = FALSE
    /\ breached = FALSE
    /\ nCloses = 0

InitChase ==
    InitChaseVars /\ InitAnalyzer /\ InitObs /\ InitOrch /\ InitLedger /\ InitRun /\ InitBotVars
    /\ InitSaveVars /\ InitEntryVars
    /\ RegimeIdle
InitFlow ==
    ChaseIdle /\ InitAnalyzer /\ InitObs /\ InitOrch /\ InitLedger /\ InitRun /\ InitBotVars
    /\ InitSaveVars /\ InitEntryVars
    /\ RegimeIdle
InitStoreSpec ==
    ChaseIdle /\ InitAnalyzer /\ InitObs /\ InitOrch /\ InitStore /\ InitRun /\ InitBotVars
    /\ InitSaveVars /\ InitEntryVars
    /\ RegimeIdle
InitRegime ==
    ChaseIdle /\ InitAnalyzer /\ InitObs /\ InitOrch /\ InitLedger /\ InitRun /\ InitBotVars
    /\ InitSaveVars /\ InitEntryVars
    /\ InitRegimeVars
InitBot ==
    ChaseIdle /\ InitAnalyzer /\ InitObs /\ InitOrch /\ InitStore /\ conn = TRUE
    /\ InitRun /\ RegimeIdle /\ InitBotVars /\ InitSaveVars
    /\ InitEntryVars
InitSave ==
    ChaseIdle /\ InitAnalyzer /\ InitObs /\ InitOrch /\ InitStore /\ conn = TRUE
    /\ InitRun /\ RegimeIdle /\ InitBotVars /\ InitSaveVars
    /\ InitEntryVars
InitExit ==
    ChaseIdle /\ InitAnalyzer /\ InitObs /\ InitOrch /\ InitStore /\ conn = TRUE
    /\ InitRun /\ RegimeIdle /\ InitBotVars /\ InitSaveVars /\ InitExitVars
InitEntry ==
    ChaseIdle /\ InitAnalyzer /\ InitObs /\ InitOrch /\ InitEntryLedger
    /\ InitRun /\ RegimeIdle /\ InitBotVars /\ InitSaveVars /\ InitEntryVars
InitApi ==
    InitApiVars /\ InitAnalyzer /\ InitObs /\ InitOrch /\ InitLedger /\ InitRun /\ InitBotVars
    /\ InitSaveVars /\ InitEntryVars
    /\ RegimeIdle

SpecChase == InitChase /\ [][NextChase]_vars
FairChase == InitChase /\ [][NextChase]_vars /\ WF_vars(NextChase)
SpecFlow == InitFlow /\ [][NextFlow]_vars
SpecWarm == InitFlow /\ [][NextWarm]_vars
SpecOrch == InitFlow /\ [][NextOrch]_vars
SpecRoll == InitFlow /\ [][NextRoll]_vars
SpecLedger == InitFlow /\ [][NextLedger]_vars
SpecStore == InitStoreSpec /\ [][NextStore]_vars
SpecShutdown == InitChase /\ [][NextShutdown]_vars
SpecApi == InitApi /\ [][NextApi]_vars
SpecRegime == InitRegime /\ [][NextRegime]_vars
SpecBot == InitBot /\ [][NextBot]_vars
SpecSave == InitSave /\ [][NextSave]_vars
SpecSize == InitFlow /\ [][NextSize]_vars
SpecFill == InitChase /\ [][NextFill]_vars
SpecExit == InitExit /\ [][NextExit]_vars
SpecEntry == InitEntry /\ [][NextEntry]_vars
\* The event loop runs the timer task whenever it is due, and an open
\* ticker stream keeps delivering.
FairExit ==
    /\ InitExit /\ [][NextExit]_vars
    /\ WF_vars(exit_scan) /\ WF_vars(exit_resume)
    /\ \A symbol \in Symbols : WF_vars(exit_ticker(symbol))

-----------------------------------------------------------------------------
(* Properties of the chase *)

\* C1: when chase has returned, it has returned a terminal outcome, the
\* filled maker order or the market order's result, and never None, whatever
\* the broker did (a failing market order included).
C1_ChaseNeverReturnsNone ==
    pc = "done" => result \in {"maker_order", "market_order"}

\* C2: with max_retries = n, if every price was available, every limit
\* placement was accepted and every poll reported CANCELED, EXPIRED or
\* REJECTED, chase makes exactly n limit placements and then exactly one
\* market-order call.
C2_CleanRunAllLimitsThenMarket ==
    /\ (envClean /\ marketCalls >= 1) => (limitCalls = max_retries /\ marketCalls = 1)
    /\ (envClean /\ pc = "done") => (limitCalls = max_retries /\ marketCalls = 1)
    /\ (pc \in {"price", "place", "poll", "cancel"}) => marketCalls = 0

C2_Witness ==
    /\ envClean
    /\ pc = "done"
    /\ max_retries = 3
    /\ timeout > 0
    /\ status \in NonFillTerminal
    /\ limitCalls = 3
    /\ marketCalls = 1

\* C3 as stated: a missing price does not consume the attempt counter, so
\* max_retries limit placements have been made when the market fallback is
\* called.
C3_PriceMissKeepsAttempt ==
    marketCalls = 1 => limitCalls = max_retries

\* C3 as amended: a missing price consumes one attempt: the loop moves on to
\* the next attempt, and when the market fallback is called the limit
\* placements made and the price misses together number max_retries.
C3_PriceMissConsumesAttempt ==
    /\ pc = "for" => limitCalls + priceMisses = i
    /\ marketCalls = 1 => limitCalls + priceMisses = max_retries

C3_Witness ==
    /\ marketCalls = 1
    /\ priceMisses >= 1
    /\ limitCalls >= 1
    /\ limitCalls < max_retries

\* C4: every chase terminates, whatever the price feed and the broker do,
\* and it places at most max_retries limit orders and at most one market
\* order.
C4_ChaseTerminatesBounded ==
    /\ <>(pc = "done")
    /\ [](limitCalls <= max_retries /\ marketCalls <= 1)

C4_Witness ==
    /\ pc = "done"
    /\ max_retries >= 2
    /\ limitCalls = max_retries
    /\ marketCalls = 1
    /\ timeout > 0
    /\ elapsed = timeout
    /\ status \in {"NEW", "UNKNOWN"}
    /\ result = "None"

\* C5: a cancel that fails after an unfilled attempt does not end the chase:
\* the attempt counter advances and the loop goes on to the next attempt, or
\* to the market fallback after the last one.
C5_FailedCancelContinues ==
    [][/\ (pc = "cancel" /\ lastCancel' = "failed") =>
             (pc' = "for" /\ i' = i + 1 /\ result' = "pending")
       /\ (pc = "for" /\ lastCancel = "failed") =>
             pc' = (IF i < max_retries THEN "price" ELSE "market")]_vars

C5_Witness ==
    /\ pc = "for"
    /\ lastCancel = "failed"
    /\ i < max_retries
    /\ result = "pending"

-----------------------------------------------------------------------------
(* Properties of the analyzer *)

\* C6: the first update after creation or after any reset() returns OFI 0,
\* and a classification of that value is neutral.
C6_FirstUpdateAfterResetIsZero ==
    (sinceReset = 1 /\ lastOp \in {"update", "classify"}) =>
        /\ lastOfi = 0
        /\ lastOp = "classify" =>
               (sig.direction = "NEUTRAL" /\ sig.strength = ZeroStrength)

C6_Witness ==
    /\ nResets >= 1
    /\ sinceReset = 1
    /\ lastOp = "update"
    /\ HasBothSides(lastBook)
    /\ lastOfi = 0

\* The OFI of a book against the book before it, by the analyzer's rule.
OfiBetween(old, new) ==
    E_n(old.bids[1][1], old.bids[1][2], new.bids[1][1], new.bids[1][2])
    - E_m(old.asks[1][1], old.asks[1][2], new.asks[1][1], new.asks[1][2])

\* C7: flow state is per symbol: a symbol's first update returns OFI 0, and
\* every later one is computed from that symbol's own previous snapshot.
C7_FlowStatePerSymbol ==
    lastSym # "none" =>
        lastOfi = IF lastSymPrev = NoBook THEN 0
                  ELSE OfiBetween(lastSymPrev, lastBook)

\* C8: the first OFI computed for a symbol after its stream failed and
\* reconnected is 0 (the analyzer was reset in between); stated for a symbol
\* whose own snapshot the analyzer held.
C8_ResetOnReconnect ==
    (lastAfterError /\ prevSym = lastSym) => lastOfi = 0

\* C9: while the history holds fewer than 20 samples the z-score is 0.0 for
\* every input, and the classification is neutral with strength 0.
C9_WarmupGivesNoSignal ==
    (lastOp = "classify" /\ Len(ofi_history) < 20) =>
        /\ sig.z_score = ZeroZ
        /\ sig.direction = "NEUTRAL"
        /\ sig.strength = ZeroStrength

C9_Witness ==
    /\ lastOp = "classify"
    /\ Len(ofi_history) = 19
    /\ \E k \in 1..Len(ofi_history) : ofi_history[k] # 0
    /\ sigIn.ofi \in SpikeOfis
    /\ sig.direction = "NEUTRAL"

\* C10: for two consecutive valid snapshots, ofi = e_n - e_m with
\* e_n = new bid size if the best bid rose, the change of the bid size if it
\* is unchanged, minus the old bid size if it fell, and e_m = new ask size
\* if the best ask fell, the change of the ask size if it is unchanged, minus
\* the old ask size if it rose; bid (100, 2) -> (101, 3) with the ask
\* unchanged at (101.5, 5) gives 3.
C10_OfiFormula ==
    (lastOp = "update" /\ before.prev_best_bid # None /\ HasBothSides(lastBook)) =>
        LET new_bid == lastBook.bids[1][1]
            new_bid_size == lastBook.bids[1][2]
            new_ask == lastBook.asks[1][1]
            new_ask_size == lastBook.asks[1][2]
            e_n == CASE new_bid > before.prev_best_bid -> new_bid_size
                     [] new_bid = before.prev_best_bid ->
                            new_bid_size - before.prev_bid_vol
                     [] new_bid < before.prev_best_bid -> 0 - before.prev_bid_vol
            e_m == CASE new_ask < before.prev_best_ask -> new_ask_size
                     [] new_ask = before.prev_best_ask ->
                            new_ask_size - before.prev_ask_vol
                     [] new_ask > before.prev_best_ask -> 0 - before.prev_ask_vol
        IN  /\ lastOfi = e_n - e_m
            /\ (/\ before.prev_best_bid = 200 /\ before.prev_bid_vol = 2
                /\ before.prev_best_ask = 203 /\ before.prev_ask_vol = 5
                /\ lastBook = Book(202, 3, 203, 5)) => lastOfi = 3

C10_Witness ==
    /\ lastOp = "update"
    /\ before.prev_best_bid = 200
    /\ before.prev_bid_vol = 2
    /\ before.prev_best_ask = 203
    /\ before.prev_ask_vol = 5
    /\ lastBook = Book(202, 3, 203, 5)
    /\ lastOfi = 3

\* The last n values of a sequence, in order.
LastN(s, n) == IF Len(s) <= n THEN s ELSE SubSeq(s, Len(s) - n + 1, Len(s))

\* The stored snapshot is level 1 of the book.
HoldsSnapshot(book) ==
    /\ prev_best_bid = book.bids[1][1]
    /\ prev_bid_vol = book.bids[1][2]
    /\ prev_best_ask = book.asks[1][1]
    /\ prev_ask_vol = book.asks[1][2]

\* C11 as stated: after every update with a non-empty book, the first call
\* after creation or reset() included, the stored snapshot is the new one
\* and the returned OFI has been appended to the history, which keeps the
\* latest 100 values in arrival order.
C11_EveryUpdateAppends ==
    (lastOp = "update" /\ HasBothSides(lastBook)) =>
        /\ HoldsSnapshot(lastBook)
        /\ ofi_history = LastN(Append(before.ofi_history, lastOfi), 100)

\* C11 as amended: after every update with a non-empty book the stored
\* snapshot is the new one; the first call after creation or reset() leaves
\* the history as it is, every other one appends the returned OFI; the
\* history never holds more than 100 values and is the latest values in
\* arrival order, the oldest dropped first.
C11_UpdateAppendsButFirst ==
    /\ Len(ofi_history) <= 100
    /\ (lastOp = "update" /\ HasBothSides(lastBook)) =>
          /\ HoldsSnapshot(lastBook)
          /\ ofi_history = IF before.prev_best_bid = None
                           THEN before.ofi_history
                           ELSE LastN(Append(before.ofi_history, lastOfi), 100)

C11_Witness ==
    /\ lastOp = "update"
    /\ HasBothSides(lastBook)
    /\ Len(before.ofi_history) = 100
    /\ before.ofi_history[1] # 0
    /\ before.ofi_history[2] # before.ofi_history[1]
    /\ Len(ofi_history) = 100
    /\ ofi_history[1] = before.ofi_history[2]

\* Exact comparisons of a z-score sign * sqrt(num / den) with a fraction
\* p / q > 0, and of squared strengths.
ZAbove(z, p, q) == z.sign = 1 /\ z.num * q * q > p * p * z.den
ZBelowMinus(z, p, q) == z.sign = -1 /\ z.num * q * q > p * p * z.den
SameFraction(a, b) == a.num * b.den = b.num * a.den
\* min(|z| / d, cap) squared, with cap = capNum / capDen
SquaredMin(z, d, capNum, capDen) ==
    IF z.num * capDen * capDen >= capNum * capNum * d * d * z.den
    THEN [num |-> capNum * capNum, den |-> capDen * capDen]
    ELSE [num |-> z.num, den |-> d * d * z.den]

\* C12: classify gives BUY exactly when z > 1.5, SELL exactly when
\* z < -1.5, and otherwise no signal with strength 0; the strength is
\* min(|z|/3, 1) with the price on the favourable side of VWAP (below for
\* BUY, above for SELL) and min(|z|/4, 0.7) otherwise; it lies in [0, 1] and
\* is non-zero only with BUY or SELL.
C12_ClassifyRule ==
    lastOp = "classify" =>
        LET z == sig.z_score
            favourable == IF sig.direction = "BUY" THEN sigIn.price < sigIn.vwap
                          ELSE sigIn.price > sigIn.vwap
        IN  /\ sig.direction = "BUY" <=> ZAbove(z, 3, 2)
            /\ sig.direction = "SELL" <=> ZBelowMinus(z, 3, 2)
            /\ sig.direction \in {"BUY", "SELL", "NEUTRAL"}
            /\ sig.direction = "NEUTRAL" => sig.strength.num = 0
            /\ sig.direction # "NEUTRAL" =>
                   SameFraction(sig.strength,
                                IF favourable THEN SquaredMin(z, 3, 1, 1)
                                ELSE SquaredMin(z, 4, 7, 10))
            /\ sig.strength.num >= 0
            /\ sig.strength.den > 0
            /\ sig.strength.num <= sig.strength.den
            /\ sig.strength.num # 0 => sig.direction \in {"BUY", "SELL"}

\* A momentum BUY below both caps: 1.5 < z < 2.8, price not below VWAP.
C12_Witness ==
    /\ lastOp = "classify"
    /\ sig.direction = "BUY"
    /\ sigIn.price >= sigIn.vwap
    /\ 100 * sig.z_score.num < 784 * sig.z_score.den
    /\ sig.strength.num > 0
    /\ 100 * sig.strength.num < 49 * sig.strength.den

\* C13: an update whose book has an empty or missing side returns 0.0 and
\* leaves the stored snapshot and the history as they were (so the next
\* valid update is diffed against the last valid snapshot).
C13_EmptySideChangesNothing ==
    (lastOp = "update" /\ ~HasBothSides(lastBook)) =>
        /\ lastOfi = 0
        /\ AnalyzerState = before

C13_Witness ==
    /\ lastOp = "update"
    /\ ~HasBothSides(lastBook)
    /\ before.prev_best_bid # None
    /\ Len(before.ofi_history) >= 1
    /\ prev_best_bid = before.prev_best_bid

-----------------------------------------------------------------------------
(* Properties of the position ledger *)

\* The four conditions of can_open_position, for a symbol, in this state.
Allowed(symbol) ==
    /\ ~is_paused
    /\ OpenCount < max_open_positions
    /\ open_positions[symbol] = NoPos
    /\ daily_stats.current_drawdown < max_daily_drawdown

\* The call gets past the count check and the same-symbol check.
ReachesDrawdownCheck(symbol) ==
    /\ OpenCount < max_open_positions
    /\ open_positions[symbol] = NoPos

C15_PauseIsSticky ==
    (lastLedgerOp = "can_open" /\ breached) => ~lastRet

C15_Witness ==
    /\ lastLedgerOp = "can_open"
    /\ breached
    /\ OpenCount = 0
    /\ nCloses = 2
    /\ daily_stats.wins = 1
    /\ ~lastRet

\* C16: close on a symbol with no open position changes nothing: the
\* statistics, the paused flag and the open-position map stay as they were.
C16_CloseMissingIsNoOp ==
    [][(lastLedgerOp' = "close" /\ open_positions[lastArg'] = NoPos) =>
          UNCHANGED <<open_positions, daily_stats, is_paused>>]_vars

\* The same symbol closed a second time: one trade counted.
C16_Witness ==
    /\ lastLedgerOp = "close"
    /\ ~lastHit
    /\ nCloses = 1
    /\ daily_stats.total_trades = 1
    /\ OpenCount = 0

\* C17: open on a symbol that already has an open position changes
\* nothing: the existing Position and the statistics stay as they were.
C17_OpenExistingIsNoOp ==
    [][(lastLedgerOp' = "open" /\ open_positions[lastArg'] # NoPos) =>
          UNCHANGED <<open_positions, daily_stats>>]_vars

\* C18: total_trades = wins + losses in every reachable state, in memory
\* and in every stored row.
C18_TradesAreWinsPlusLosses ==
    /\ daily_stats.total_trades = daily_stats.wins + daily_stats.losses
    /\ \A d \in Days :
           db_stats[d].total_trades = db_stats[d].wins + db_stats[d].losses

\* Statistics with a trade, stored and loaded back.
C18_Witness ==
    /\ lastLedgerOp = "load"
    /\ conn
    /\ daily_stats.total_trades = 1
    /\ daily_stats.losses = 1
    /\ daily_stats.total_pnl = 0

Counters(ds) == [ds EXCEPT !.date = 0]

\* C20: save_state followed at once by load_state leaves the open
\* positions, the counters of the statistics and the paused flag as they
\* were, also after the calendar date has changed under the running
\* process.
C20_SaveLoadRoundTrip ==
    [][(lastLedgerOp = "save" /\ lastLedgerOp' = "load") =>
          /\ UNCHANGED <<open_positions, is_paused>>
          /\ Counters(daily_stats') = Counters(daily_stats)]_vars

\* C23: the statistics roll over with the calendar: a trade closed after
\* the date has changed is booked under the new date, and the drawdown
\* that can_open tests is then the new day's only.
C23_StatsRollOver ==
    /\ (lastLedgerOp = "close" /\ lastHit) => daily_stats.date = today
    /\ lastLedgerOp = "can_open" =>
           (daily_stats.date = today \/ daily_stats.current_drawdown = 0)

\* C24: load_state on a date with no stored row gives an all-zero
\* DailyStats for today and an unset paused flag, whatever was in memory
\* and whatever rows other dates have; the open positions are those stored.
C24_LoadWithoutRowIsFresh ==
    (lastLedgerOp = "load" /\ conn /\ db_stats[today] = NoRow) =>
        /\ daily_stats = DailyStats(today)
        /\ ~is_paused
        /\ open_positions = db_positions

-----------------------------------------------------------------------------
(* Properties of shutdown and of the OrderExecutor's operations *)

\* C25: when stop() has run, no limit order placed by this process is
\* still tracked as active (or resting on the exchange).
C25_StopCancelsOrders ==
    [][(running /\ ~running') => active_orders' = {}]_vars

\* C30: no public OrderExecutor operation lets a broker or transport
\* exception through to its caller; each failure ends in None, 0.0,
\* UNKNOWN or an empty list.
C30_NoOperationRaises ==
    apiResult # "raised"

-----------------------------------------------------------------------------
(* Properties of the regime guard *)

\* C28: reads of the regime classification are made under _hmm_lock, so no
\* reader on the update path sees the regime while a retrain holds the lock.
C28_NoReadDuringRetrain ==
    lastRead # "none" => lockAtRead # "retrain"

-----------------------------------------------------------------------------
(* Properties of the running system *)

\* The database holds the ledger as it is in memory.
Durable ==
    /\ db_positions = open_positions
    /\ db_stats[daily_stats.date] = StatsRow(daily_stats, is_paused)

\* C21: every open and close of the running system is followed by
\* save_state, so a kill at any point followed by a restart recovers the
\* open positions and the statistics of today as they were.
C21_RestartRecoversLedger ==
    [][lastLedgerOp' = "restart" =>
           /\ open_positions' = open_positions
           /\ daily_stats' = daily_stats]_vars

\* C26: whenever a call of stop() completes, the first or a later one, the
\* database holds the open positions and the statistics that are in memory.
C26_StopLeavesLedgerDurable ==
    [][lastLedgerOp' = "stop" => Durable']_vars

\* C27: when panic_stop completes no position is open and the running flag
\* is false: a close is issued for every position that was open.
C27_PanicClosesEverything ==
    [][lastLedgerOp' = "panic" =>
           /\ \A s \in Symbols : open_positions'[s] = NoPos
           /\ ~running']_vars

\* C29: a failure raised while a bar-close event is handled, in position
\* management or in analysis, does not reach the market-data loop: the
\* loop is still running afterwards, for the events of the other symbols.
C29_BarCloseFailureIsIsolated ==
    [][lastLedgerOp' \in {"candle_manage_raised", "candle_analysis_raised"}
           => feed' = "up"]_vars

\* C22: the statistics row and the position rows are written together:
\* whatever save_state commits is the ledger as it was in memory at one
\* instant, also when opens and closes run between its awaits.
C22_CommittedIsOneInstant ==
    [][lastLedgerOp' = "save_commit" =>
           \E l \in seen' :
               /\ db_positions' = l[1]
               /\ db_stats'[l[2].date] = StatsRow(l[2], l[3])]_vars

-----------------------------------------------------------------------------
(* Properties of position sizing *)

\* C31: for balance > 0, entry > 0 and confidence in [0, 1] the size is at
\* most 0.1 * balance / entry; with entry = stop it is computed from the
\* default stop percentage of the entry price, and nothing divides by zero.
C31_SizeIsCapped ==
    (size_out.status # "none" /\ size_in.balance > 0 /\ size_in.entry > 0) =>
        LET ceiling == Frac(size_in.balance, 10 * size_in.entry)
            fromDefault ==
                Frac(size_in.balance * max_position_size * size_in.confidence,
                     100 * size_in.entry * default_sl_percent)
        IN  /\ size_out.status = "ok"
            /\ FracLeq(size_out, ceiling)
            /\ size_in.entry = size_in.stop =>
                   size_out = FracMin(fromDefault, ceiling)

\* C31 witness: a call with entry = stop and a positive confidence has
\* returned a positive size.
C31_Witness ==
    /\ size_out.status = "ok"
    /\ size_in.entry = size_in.stop
    /\ size_in.confidence > 0
    /\ size_out.n > 0

-----------------------------------------------------------------------------
(* Properties of the order book-keeping *)

\* C39: cancel_all_orders(symbol) touches only the orders of that symbol:
\* the orders tracked for every other symbol stay in active_orders.
C39_CancelAllKeepsOtherSymbols ==
    [][apiOp' = "cancel_all" =>
           \E symbol \in Symbols :
               \A o \in active_orders :
                   OrderSymbol(o) # symbol => o \in active_orders']_vars

\* C36: one chase leaves at most one filled order on the exchange: a limit
\* order that fills after the last status poll is not followed by a further
\* limit or market order that fills as well.  (Stated for the runs in which
\* no filled order was cancelled.)
C36_AtMostOneFill ==
    (pc = "done" /\ filled \subseteq active_orders) =>
        Cardinality(filled
                    \cup (IF result = "maker_order" THEN {OrderId(i)} ELSE {})
                    \cup (IF result = "market_order" THEN {0} ELSE {})) <= 1

-----------------------------------------------------------------------------
(* Properties of the time exit *)

\* C35: while the bot is running, a position that has become older than
\* the max hold time is eventually closed, for every symbol, when the timer
\* of the scan is scheduled fairly.
C35_OldPositionsGetClosed ==
    \A s \in Symbols :
        (running /\ s \in overdue /\ open_positions[s] # NoPos)
            ~> (open_positions[s] = NoPos)

\* C40: the scan only closes positions that are older than the max hold
\* time when they are closed: a position opened after the selection is not
\* closed on the strength of the selection.
C40_ScanClosesOnlyOldPositions ==
    [][lastLedgerOp' = "scan_close" => lastArg' \in overdue]_vars

-----------------------------------------------------------------------------
(* Properties of the entry paths *)

\* The steps in which on_l2_update looks at the ledger for its symbol.
L2Checked == {"l2_keep", "l2_reversal", "l2_pass", "l2_accept"}

\* The steps in which an entry path records a position.
EntryOpened == {"l2_open", "bar_open"}

\* RiskManager.can_open_position as a predicate of the present state.
MayOpen(symbol) ==
    /\ ~is_paused
    /\ OpenCount < max_open_positions
    /\ open_positions[symbol] = NoPos
    /\ daily_stats.current_drawdown < max_daily_drawdown

C33_CooldownPerSymbol ==
    [][/\ lastLedgerOp' = "l2_accept" =>
            /\ \A stamp \in cooldowns[lastArg'] :
                   now - stamp >= cooldown_seconds
            /\ cooldowns'[lastArg'] = {now}
            /\ \A s \in Symbols \ {lastArg'} : cooldowns'[s] = cooldowns[s]
       /\ lastLedgerOp' \in {"l2_chase", "l2_open"} =>
            /\ l2_pc[lastArg'] \in Directions \cup {"chase_buy", "chase_sell"}
            /\ cooldowns[lastArg'] # {}
            /\ cooldowns' = cooldowns
       /\ lastLedgerOp' \in L2Checked \ {"l2_accept"} => cooldowns' = cooldowns
      ]_vars

\* An update was refused by the cooldown, and one was accepted after it
\* had run out.
C33_Witness ==
    /\ lastLedgerOp = "l2_accept"
    /\ now >= cooldown_seconds
    /\ \E s \in Symbols \ {lastArg} : cooldowns[s] = {0}
    /\ nCloses = 1

\* C34: an update for a symbol with a position never closes it by OFI
\* reversal while it is held for less than min_hold_time; held that long, an
\* OFI against the position beyond the threshold closes it in that update if
\* the ticker is cached, cooldown or not; and such an update ends there: no
\* order, no position.
C34_HoldThenReversal ==
    [][lastLedgerOp' \in L2Checked /\ open_positions[lastArg'] # NoPos =>
         LET s == lastArg'
             held == now - entry_at[s]
             against ==
                 \/ open_positions[s].direction = "BUY"
                    /\ l2_ofi' < -ofi_exit_threshold
                 \/ open_positions[s].direction = "SELL"
                    /\ l2_ofi' > ofi_exit_threshold
         IN  /\ held < min_hold_time => open_positions'[s] = open_positions[s]
             /\ held >= min_hold_time /\ against /\ s \in tickers =>
                    open_positions'[s] = NoPos
             /\ lastLedgerOp' = "l2_reversal" <=> open_positions'[s] = NoPos
             /\ open_positions'[s] \in {NoPos, open_positions[s]}
             /\ l2_pc'[s] = "idle"
             /\ orders' [s] <= orders[s]
             /\ cooldowns' = cooldowns
      ]_vars

\* A reversal closed a position while the symbol's cooldown was running.
C34_Witness ==
    /\ lastLedgerOp = "l2_reversal"
    /\ InCooldown(lastArg)
    /\ open_positions[lastArg] = NoPos

====
